---- MODULE Spec2Model ----
(***************************************************************************)
(* DigiSim (src/digisim.cpp): a gate-level logic simulator.  The model     *)
(* follows the C++ source: Node, the combinational gates (six classes      *)
(* with the same body up to the reduction operator), DFF, Event, the       *)
(* EventQueue built on std::priority_queue (the binary heap of libstdc++,  *)
(* the library of the G++ compiler the file is written for), and the       *)
(* Circuit constructor, FindIOs and TimingSimulation.                      *)
(*                                                                         *)
(* Tokens of the input files are modelled as already split on white space: *)
(* a netlist line is a record of its tokens, a stimulus line a record      *)
(* (time, input, newVals).  Times are integers (the code stores            *)
(* `float time` into `int inputTime`).                                     *)
(***************************************************************************)
EXTENDS Integers, Sequences, FiniteSets, TLC

VARIABLES
  pc,            \* position of main(): "new", "parsed", "run", "done"
  netlist,       \* the netlist file: a sequence of lines
  stim,          \* the stimulus file: a sequence of records
  comps,         \* Circuit::comps, with each gate's fields
  dffs,          \* Circuit::dffs, with each flip-flop's fields
  nodeNames,     \* Circuit::nodeNames
  CurValue,      \* Node::CurValue of every node, by name
  StuckAtOp,     \* Node::StuckAtOp of every node, by name
  inputnodes,    \* Circuit::inputnodes (names)
  outputnodes,   \* Circuit::outputnodes (names)
  PQ,            \* EventQueue::PQ: the heap's vector
  vcd,           \* the transition records written to the VCD file
  dumpvars,      \* the $dumpvars block of the VCD file
  diag,          \* the violation messages written to standard output
  hist,          \* history of the run (not program state): see HistInit
  gen            \* the FaultVectorGenerator and the locals of Generate

vars == <<pc, netlist, stim, comps, dffs, nodeNames, CurValue, StuckAtOp,
          inputnodes, outputnodes, PQ, vcd, dumpvars, diag, hist, gen>>

-----------------------------------------------------------------------------
(* enum LogicValue { ZERO, ONE, X, U, Z } *)
ZERO == 0
ONE == 1
X == 2
U == 3
Z == 4
LogicValue == {ZERO, ONE, X, U, Z}

NULL == "NULL"

(* Bounds of the model. *)
MaxStim == 3        \* lines of a generated stimulus file
MaxTime == 1        \* the later of the two times of generated records
MaxDispatch == 40   \* events dispatched before a run is cut off

-----------------------------------------------------------------------------
(* Node *)

\* a node without the StuckAtOp test: every write is stored
UpdateValueUnlocked(cv, sa, name, n) == [cv EXCEPT ![name] = n]

\* Node::UpdateValue
UpdateValue(cv, sa, name, n) ==
  [cv EXCEPT ![name] = IF sa[name] = 0 THEN n ELSE cv[name]]

\* Node::MakeStuckAt, on the node maps (CurValue, StuckAtOp)
MakeStuckAtValue(cv, name, y) == [cv EXCEPT ![name] = y]
MakeStuckAtOp(sa, name) == [sa EXCEPT ![name] = 1]

-----------------------------------------------------------------------------
(* Combinational gates.  A gate is a record                                *)
(*   kind, rise_Time, fall_Time, inputNames, output,                       *)
(*   outputValue, prevoutputValue, outVal, delay.                          *)
(* inputs[i] is non-NULL exactly for the names of inputNames.              *)

ComboLogicOptions == {".OR", ".AND", ".XOR", ".NOR", ".NAND", ".XNOR"}

\* tempoutputValue starting at 0 in every gate
TempInitZero(kind) == 0

\* int tempoutputValue = 1 (AND, NAND) or 0 (the others)
TempInit(kind) == IF kind \in {".AND", ".NAND"} THEN 1 ELSE 0

\* nodeValue & temp, nodeValue | temp, nodeValue ^ temp
TempStep(kind, nodeValue, temp) ==
  IF kind \in {".AND", ".NAND"} THEN (IF nodeValue = 1 /\ temp = 1 THEN 1 ELSE 0)
  ELSE IF kind \in {".OR", ".NOR"} THEN (IF nodeValue = 1 \/ temp = 1 THEN 1 ELSE 0)
  ELSE (IF nodeValue # temp THEN 1 ELSE 0)

\* the loop `for (i = 0; i < 8; i++) if (inputs[i] != NULL) ...`
RECURSIVE TempLoop(_, _, _, _, _)
TempLoop(kind, names, i, temp, cv) ==
  IF i > Len(names) THEN temp
  ELSE LET nodeValue == IF cv[names[i]] = ZERO THEN 0 ELSE 1
       IN  TempLoop(kind, names, i + 1, TempStep(kind, nodeValue, temp), cv)

\* tempoutputValue as Calculate and PreCalc compute it
TempOutput(g, cv) ==
  LET t == TempLoop(g.kind, g.inputNames, 1, TempInit(g.kind), cv)
  IN  IF g.kind \in {".NAND", ".NOR", ".XNOR"}
      THEN (IF t = 1 THEN 0 ELSE 1)
      ELSE t

\* a gate whose output changes after one time unit, whatever its delays
CalculateUnitDelay(g, cv) ==
  LET tempoutputValue == TempOutput(g, cv)
  IN  [g EXCEPT !.prevoutputValue = g.outputValue,
                !.delay = IF tempoutputValue # g.outputValue THEN 1 ELSE 0,
                !.outputValue = tempoutputValue,
                !.outVal = IF tempoutputValue = 0 THEN ZERO ELSE ONE]

\* a Calculate that leaves prevoutputValue as it is
CalculateNoStash(g, cv) ==
  LET tempoutputValue == TempOutput(g, cv)
      d == IF tempoutputValue = 0 /\ g.outputValue = 1 THEN g.fall_Time
           ELSE IF tempoutputValue = 1 /\ g.outputValue = 0 THEN g.rise_Time
           ELSE 0
  IN  [g EXCEPT !.delay = d,
                !.outputValue = tempoutputValue,
                !.outVal = IF tempoutputValue = 0 THEN ZERO ELSE ONE]

\* <kind>gate::Calculate
Calculate(g, cv) ==
  LET tempoutputValue == TempOutput(g, cv)
      d == IF tempoutputValue = 0 /\ g.outputValue = 1 THEN g.fall_Time
           ELSE IF tempoutputValue = 1 /\ g.outputValue = 0 THEN g.rise_Time
           ELSE 0
  IN  [g EXCEPT !.prevoutputValue = g.outputValue,
                !.delay = d,
                !.outputValue = tempoutputValue,
                !.outVal = IF tempoutputValue = 0 THEN ZERO ELSE ONE]

\* a PreCalc that always reports a change
PreCalcAlways(g, cv) == 1

\* <kind>gate::PreCalc
PreCalc(g, cv) == IF TempOutput(g, cv) = g.outputValue THEN 0 ELSE 1

\* <kind>gate::RevertOutput
RevertOutput(g) == [g EXCEPT !.outputValue = g.prevoutputValue]

-----------------------------------------------------------------------------
(* DFF.  A flip-flop is a record                                           *)
(*   D, CLK, Q, Qn, setupTime, holdTime, lastClockState, outQ, outQn,      *)
(*   Dchange_time, CLKchange_time.                                         *)

\* a flip-flop that does not latch when it reports a setup violation
DFFCalculateStrict(f, cv, CLKtime, simType) ==
  LET edge == f.lastClockState = FALSE /\ cv[f.CLK] = ONE
      late == edge /\ (CLKtime - f.Dchange_time) < f.setupTime /\ simType = 1
      f1 == IF edge /\ ~late
            THEN [f EXCEPT !.outQ = cv[f.D],
                           !.outQn = IF cv[f.D] = ONE THEN ZERO ELSE ONE,
                           !.CLKchange_time = CLKtime]
            ELSE f
      msg == IF late
             THEN <<[kind |-> "setup", time |-> CLKtime, node |-> f.Q]>>
             ELSE <<>>
  IN  <<[f1 EXCEPT !.lastClockState = (cv[f.CLK] = ONE)], msg>>

\* a flip-flop that latches on the falling clock edge
DFFCalculateFalling(f, cv, CLKtime, simType) ==
  LET edge == f.lastClockState = TRUE /\ cv[f.CLK] # ONE
      f1 == IF edge
            THEN [f EXCEPT !.outQ = cv[f.D],
                           !.outQn = IF cv[f.D] = ONE THEN ZERO ELSE ONE,
                           !.CLKchange_time = CLKtime]
            ELSE f
      msg == IF edge /\ (CLKtime - f.Dchange_time) < f.setupTime /\ simType = 1
             THEN <<[kind |-> "setup", time |-> CLKtime, node |-> f.Q]>>
             ELSE <<>>
  IN  <<[f1 EXCEPT !.lastClockState = (cv[f.CLK] = ONE)], msg>>

\* DFF::Calculate; the second component is the message written, if any
DFFCalculate(f, cv, CLKtime, simType) ==
  LET edge == f.lastClockState = FALSE /\ cv[f.CLK] = ONE
      f1 == IF edge
            THEN [f EXCEPT !.outQ = cv[f.D],
                           !.outQn = IF cv[f.D] = ONE THEN ZERO ELSE ONE,
                           !.CLKchange_time = CLKtime]
            ELSE f
      msg == IF edge /\ (CLKtime - f.Dchange_time) < f.setupTime /\ simType = 1
             THEN <<[kind |-> "setup", time |-> CLKtime, node |-> f.Q]>>
             ELSE <<>>
  IN  <<[f1 EXCEPT !.lastClockState = (cv[f.CLK] = ONE)], msg>>

\* DFF::ErrTimersD
ErrTimersD(f, time, simType) ==
  LET msg == IF (time - f.CLKchange_time) < f.holdTime /\ simType = 1
             THEN <<[kind |-> "hold", time |-> time, node |-> f.Q]>>
             ELSE <<>>
  IN  <<[f EXCEPT !.Dchange_time = time], msg>>

-----------------------------------------------------------------------------
(* Event and EventQueue.  An event is a record                             *)
(*   eventComp, eventNode, eventTime, nextVal, CompNode                    *)
(* and, for the history only (no operation of the queue reads them),       *)
(*   id:   the number of the Append that queued it,                        *)
(*   src:  who queued it: "stim" (the stimulus file), "seed" (the initial  *)
(*         Calculate of a gate), "gate" (a gate evaluation), "edge" and    *)
(*         "noedge" (a flip-flop evaluation that saw, or did not see, a    *)
(*         rising clock edge), "eval" (a GateEvaluate event),              *)
(*   base: for "seed" and "gate", the gate's outputValue before the        *)
(*         Calculate that queued it; for "edge", the value of D that was   *)
(*         latched; otherwise -1.                                          *)

NoComp == [cls |-> "NULL", k |-> 0]
GateRef(k) == [cls |-> "ComboLogicGate", k |-> k]
DFFRef(k) == [cls |-> "DFF", k |-> k]

Event(x, y, t, z, CN, id, src, base) ==
  [eventComp |-> x, eventNode |-> y, eventTime |-> t, nextVal |-> z,
   CompNode |-> CN, id |-> id, src |-> src, base |-> base]

\* the comparison turned round: the latest event is on top
LessThanTimeReversed(lhs, rhs) == lhs.eventTime < rhs.eventTime

\* LessThanTime::operator()
LessThanTime(lhs, rhs) == lhs.eventTime > rhs.eventTime

\* std::__push_heap: first is the vector (index 0 at position 1)
RECURSIVE PushHeap(_, _, _, _)
PushHeap(first, holeIndex, topIndex, value) ==
  IF holeIndex > topIndex
     /\ LessThanTime(first[((holeIndex - 1) \div 2) + 1], value)
  THEN LET parent == (holeIndex - 1) \div 2
       IN  PushHeap([first EXCEPT ![holeIndex + 1] = first[parent + 1]],
                    parent, topIndex, value)
  ELSE [first EXCEPT ![holeIndex + 1] = value]

\* the while loop of std::__adjust_heap: moves the hole down to a leaf
RECURSIVE AdjustLoop(_, _, _)
AdjustLoop(first, secondChild, len) ==
  IF secondChild < (len - 1) \div 2
  THEN LET r == 2 * (secondChild + 1)
           c == IF LessThanTime(first[r + 1], first[r]) THEN r - 1 ELSE r
       IN  AdjustLoop([first EXCEPT ![secondChild + 1] = first[c + 1]], c, len)
  ELSE <<first, secondChild>>

\* std::__adjust_heap(first, 0, len, value)
AdjustHeap(first, len, value) ==
  LET a == AdjustLoop(first, 0, len)
      f1 == a[1]
      sc == a[2]
      b == IF len % 2 = 0 /\ sc = (len - 2) \div 2
           THEN <<[f1 EXCEPT ![sc + 1] = f1[2 * (sc + 1)]], 2 * (sc + 1) - 1>>
           ELSE <<f1, sc>>
  IN  PushHeap(b[1], b[2], 0, value)

\* EventQueue::Append (priority_queue::push: push_back, then push_heap)
QueueAppend(q, x) == PushHeap(q \o <<x>>, Len(q), 0, x)

\* EventQueue::Pop (priority_queue::pop: pop_heap, then pop_back)
Pop(q) ==
  IF Len(q) <= 1 THEN <<>>
  ELSE AdjustHeap(SubSeq(q, 1, Len(q) - 1), Len(q) - 1, q[Len(q)])

\* EventQueue::Top
Top(q) == q[1]

\* a loop that drops the first event of the node only
RECURSIVE DeleteLoopFirst(_, _, _, _)
DeleteLoopFirst(tempPQ, newPQ, x, dropped) ==
  IF tempPQ = <<>> THEN <<newPQ, dropped>>
  ELSE IF Top(tempPQ).eventNode # x \/ dropped # <<>>
       THEN DeleteLoopFirst(Pop(tempPQ), QueueAppend(newPQ, Top(tempPQ)), x, dropped)
       ELSE DeleteLoopFirst(Pop(tempPQ), newPQ, x, Append(dropped, Top(tempPQ)))

\* the loop of EventQueue::Delete: <<newPQ, the events dropped>>
RECURSIVE DeleteLoop(_, _, _, _)
DeleteLoop(tempPQ, newPQ, x, dropped) ==
  IF tempPQ = <<>> THEN <<newPQ, dropped>>
  ELSE IF Top(tempPQ).eventNode # x
       THEN DeleteLoop(Pop(tempPQ), QueueAppend(newPQ, Top(tempPQ)), x, dropped)
       ELSE DeleteLoop(Pop(tempPQ), newPQ, x, Append(dropped, Top(tempPQ)))

\* a queue without cancellation: nothing is dropped, nothing reverted
DeleteKeepsAll(q, x, y) == <<q, y, <<>>>>

\* EventQueue::Delete(x, y): <<PQ, y, the events dropped>> afterwards;
\* y->RevertOutput() runs once for every event dropped (it is idempotent)
Delete(q, x, y) ==
  LET r == DeleteLoop(q, <<>>, x, <<>>)
  IN  <<r[1], IF r[2] # <<>> THEN RevertOutput(y) ELSE y, r[2]>>

-----------------------------------------------------------------------------
(* Circuit: the constructor.  A netlist line is a record                   *)
(*   out, compType, p1, p2, ins                                            *)
(* of its first two tokens, the two numbers and the names that follow.     *)

GateLine(out, compType, r, f, ins) ==
  [out |-> out, compType |-> compType, p1 |-> r, p2 |-> f, ins |-> ins]

\* the part of Circuit::FindOrCreateNode that changes the circuit
FindOrCreateNode(names, nodeName) == names \cup {nodeName}

RECURSIVE FindOrCreateAll(_, _, _)
FindOrCreateAll(names, ins, i) ==
  IF i > Len(ins) THEN names
  ELSE FindOrCreateAll(FindOrCreateNode(names, ins[i]), ins, i + 1)

\* new <kind>gate(o, delay[0], delay[1], inputPtr[0..7]); `int delay` has no
\* initial value and is written by Calculate before the simulators read it
NewGate(line) ==
  [kind |-> line.compType, rise_Time |-> line.p1, fall_Time |-> line.p2,
   inputNames |-> SubSeq(line.ins, 1, IF Len(line.ins) < 8 THEN Len(line.ins) ELSE 8),
   output |-> line.out,
   outputValue |-> 0, prevoutputValue |-> 0, outVal |-> ZERO, delay |-> 0]

\* new DFF(dNode, clkNode, qNode, qnNode, setupTime, holdTime); outQ and outQn
\* have no initial value: uq and uqn are what the memory happens to hold
NewDFF(line, uq, uqn) ==
  [D |-> line.ins[1], CLK |-> line.ins[2], Q |-> line.ins[3], Qn |-> line.ins[4],
   setupTime |-> line.p1, holdTime |-> line.p2, lastClockState |-> FALSE,
   outQ |-> uq, outQn |-> uqn, Dchange_time |-> 0, CLKchange_time |-> 0]

\* the while (getline(MyReadFile, line)) loop of Circuit::Circuit
RECURSIVE ReadNetlist(_, _, _, _, _)
ReadNetlist(lines, i, c, uq, uqn) ==
  IF i > Len(lines) THEN c
  ELSE LET line == lines[i] IN
    IF line.out = "#" THEN ReadNetlist(lines, i + 1, c, uq, uqn)
    ELSE IF line.compType \in ComboLogicOptions
    THEN ReadNetlist(lines, i + 1,
           [c EXCEPT !.comps = Append(c.comps, NewGate(line)),
                     !.names = FindOrCreateAll(FindOrCreateNode(c.names, line.out),
                                 SubSeq(line.ins, 1,
                                   IF Len(line.ins) < 8 THEN Len(line.ins) ELSE 8), 1)],
           uq, uqn)
    ELSE IF line.compType = ".DFF"
    THEN ReadNetlist(lines, i + 1,
           [c EXCEPT !.dffs = Append(c.dffs, NewDFF(line, uq, uqn)),
                     !.names = FindOrCreateAll(c.names, SubSeq(line.ins, 1, 4), 1)],
           uq, uqn)
    ELSE ReadNetlist(lines, i + 1, c, uq, uqn)

\* output_occurances and input_occurances of Circuit::FindIOs for one name
OutputOccurances(cs, name) ==
  Cardinality({j \in 1..Len(cs) : cs[j].output = name})
InputOccurances(cs, name) ==
  Cardinality({jk \in {<<j, k>> : j \in 1..Len(cs), k \in 1..8} :
                 jk[2] <= Len(cs[jk[1]].inputNames)
                 /\ cs[jk[1]].inputNames[jk[2]] = name})

\* Circuit::FindIOs: the two sets it fills
FindInputs(cs, names) == {n \in names : OutputOccurances(cs, n) = 0}
FindOutputs(cs, names) == {n \in names : InputOccurances(cs, n) = 0}

-----------------------------------------------------------------------------
(* The inputs of a run: a netlist file and a stimulus file.  A bench names *)
(* a netlist, the nodes and value tokens of the generated stimulus files,  *)
(* the stimulus files given in full, and whether a node is locked          *)
(* (Circuit::CreateStuckAt) before the run.                                *)

StimLine(t, input, newVals) == [time |-> t, input |-> input, newVals |-> newVals]

Benches == <<
  \* 1: scenario "two-input AND, inertial glitch suppression"
  [lines |-> <<GateLine("Y", ".AND", 3, 3, <<"A", "B">>)>>,
   drive |-> {"A", "B"}, tokens |-> {"0", "1"}, faults |-> FALSE,
   given |-> {<<StimLine(0, "A", "1"), StimLine(0, "B", "0"),
                StimLine(5, "B", "1"), StimLine(6, "B", "0")>>}],
  \* 2: scenario "NAND initial state", after a comment line
  [lines |-> <<GateLine("#", "netlist", 0, 0, <<>>),
               GateLine("Y", ".NAND", 2, 2, <<"A", "B">>)>>,
   drive |-> {"A", "B"}, tokens |-> {"0", "1"}, faults |-> FALSE,
   given |-> {}],
  \* 3: scenarios "D flip-flop capture" and "hold violation"
  [lines |-> <<GateLine("Q", ".DFF", 1, 1, <<"D", "CLK", "Q", "Qn">>)>>,
   drive |-> {"D", "CLK"}, tokens |-> {"0", "1"}, faults |-> FALSE,
   given |-> {<<StimLine(0, "D", "1"), StimLine(5, "CLK", "1"),
                StimLine(10, "CLK", "0")>>,
              <<StimLine(5, "CLK", "1"), StimLine(5, "D", "1")>>}],
  \* 4: scenario "three-gate cascade timing"
  [lines |-> <<GateLine("X", ".AND", 2, 2, <<"A", "B">>),
               GateLine("Y", ".OR", 3, 3, <<"X", "C">>)>>,
   drive |-> {"A", "B", "C"}, tokens |-> {"0", "1"}, faults |-> FALSE,
   given |-> {<<StimLine(0, "A", "1"), StimLine(0, "B", "1"),
                StimLine(0, "C", "0")>>}],
  \* 5: scenario "stuck-at detection": the netlist of the fault generator
  [lines |-> <<GateLine("Y", ".AND", 1, 1, <<"A", "B">>)>>,
   drive |-> {"A", "B"}, tokens |-> {"0", "1"}, faults |-> TRUE,
   given |-> {}],
  \* 6: a gate with a rise delay of 0
  [lines |-> <<GateLine("Y", ".OR", 0, 1, <<"A", "B">>)>>,
   drive |-> {"A", "B"}, tokens |-> {"0", "1"}, faults |-> FALSE,
   given |-> {}],
  \* 7: a gate whose output is one of its inputs
  [lines |-> <<GateLine("Y", ".NOR", 1, 1, <<"Y", "A">>)>>,
   drive |-> {"A"}, tokens |-> {"0", "1"}, faults |-> FALSE,
   given |-> {}],
  \* 8: a stimulus file that drives a gate's output and has other tokens
  \*    than 0 and 1; a line with an unknown component
  [lines |-> <<GateLine("Y", ".XNOR", 1, 2, <<"A", "B">>),
               GateLine("W", ".BUF", 1, 1, <<"A">>)>>,
   drive |-> {"A", "Y"}, tokens |-> {"0", "1", "z"}, faults |-> FALSE,
   given |-> {}],
  \* 9: an inverting gate with a rise delay of 0
  [lines |-> <<GateLine("Y", ".NAND", 0, 2, <<"A", "B">>)>>,
   drive |-> {"A"}, tokens |-> {"0", "1"}, faults |-> FALSE,
   given |-> {}],
  \* 10: a gate whose output no input pattern changes
  [lines |-> <<GateLine("Y", ".XOR", 1, 1, <<"A", "A">>)>>,
   drive |-> {"A"}, tokens |-> {"0", "1"}, faults |-> TRUE,
   given |-> {}],
  \* 11: a netlist with two output nodes
  [lines |-> <<GateLine("X", ".NAND", 1, 1, <<"A">>),
               GateLine("Y", ".AND", 1, 1, <<"A">>)>>,
   drive |-> {"A"}, tokens |-> {"0", "1"}, faults |-> TRUE,
   given |-> {}],
  \* 12: a node that two gates drive
  [lines |-> <<GateLine("Y", ".OR", 1, 1, <<"A">>),
               GateLine("Y", ".OR", 2, 2, <<"A">>)>>,
   drive |-> {"A"}, tokens |-> {"0", "1"}, faults |-> FALSE,
   given |-> {}],
  \* 13: a netlist of the fault generator with a fall delay of 0
  [lines |-> <<GateLine("Y", ".AND", 1, 0, <<"A">>)>>,
   drive |-> {"A"}, tokens |-> {"0", "1"}, faults |-> TRUE,
   given |-> {}]
>>

\* the stimulus files of a bench: every file of at most MaxStim lines over
\* its nodes, its tokens and the times 0 and MaxTime, and the files given
StimLines(b) ==
  {StimLine(t, n, v) : t \in {0, MaxTime}, n \in Benches[b].drive,
                       v \in Benches[b].tokens}
StimFiles(b) ==
  UNION {[1..n -> StimLines(b)] : n \in 0..MaxStim} \cup Benches[b].given

\* what uninitialised memory may hold where a LogicValue is read
Indeterminate == {ZERO, ONE, Z}

HistInit(b) ==
  [bench |-> b,        \* the bench of this run
   mode |-> "none",    \* "timing" or "functional"
   nextId |-> 1,       \* number of the next Append
   now |-> 0,          \* eventTime of the event dispatched last
   dispatched |-> <<>>,\* the events dispatched, in order
   popped |-> <<>>,    \* the events removed by Pop(), in order
   deletes |-> <<>>,   \* one record for every call of Delete
   pred |-> <<>>,      \* one record for every gate evaluation that changed
                       \* the gate's committed output
   edges |-> <<>>,     \* one record for every flip-flop evaluation that saw
                       \* a rising clock edge
   lock |-> <<>>]      \* the (node, value) of CreateStuckAt, if called

Init ==
  \E b \in 1..Len(Benches) :
    /\ pc = "new"
    /\ netlist = Benches[b].lines
    /\ stim \in StimFiles(b)
    /\ comps = <<>>
    /\ dffs = <<>>
    /\ nodeNames = {}
    /\ CurValue = <<>>
    /\ StuckAtOp = <<>>
    /\ inputnodes = {}
    /\ outputnodes = {}
    /\ PQ = <<>>
    /\ vcd = <<>>
    /\ dumpvars = <<>>
    /\ diag = <<>>
    /\ hist = HistInit(b)
    /\ gen = [pc |-> "none"]

\* main(): new Circuit(netlistFile)
Construct ==
  /\ pc = "new"
  /\ \E uq \in Indeterminate, uqn \in Indeterminate :
       LET c == ReadNetlist(netlist, 1,
                            [comps |-> <<>>, dffs |-> <<>>, names |-> {}], uq, uqn)
       IN  /\ comps' = c.comps
           /\ dffs' = c.dffs
           /\ nodeNames' = c.names
           /\ CurValue' = [n \in c.names |-> ZERO]
           /\ StuckAtOp' = [n \in c.names |-> 0]
           /\ inputnodes' = FindInputs(c.comps, c.names)
           /\ outputnodes' = FindOutputs(c.comps, c.names)
  /\ pc' = "parsed"
  /\ UNCHANGED gen
  /\ UNCHANGED <<netlist, stim, PQ, vcd, dumpvars, diag, hist>>

\* Circuit::CreateStuckAt(x, y), called once on a circuit as the fault
\* generator does
CreateStuckAt ==
  /\ pc = "parsed"
  /\ Benches[hist.bench].faults
  /\ hist.lock = <<>>
  /\ \E x \in nodeNames, y \in {ZERO, ONE} :
       /\ CurValue' = MakeStuckAtValue(CurValue, x, y)
       /\ StuckAtOp' = MakeStuckAtOp(StuckAtOp, x)
       /\ hist' = [hist EXCEPT !.lock = <<x, y>>]
  /\ UNCHANGED gen
  /\ UNCHANGED <<pc, netlist, stim, comps, dffs, nodeNames, inputnodes,
                 outputnodes, PQ, vcd, dumpvars, diag>>

-----------------------------------------------------------------------------
(* The simulators.  Their loops thread a record s of what they change:     *)
(*   PQ, comps, dffs, diag, nextId, deletes.                               *)

SimState ==
  [PQ |-> PQ, comps |-> comps, dffs |-> dffs, diag |-> diag,
   nextId |-> hist.nextId, deletes |-> hist.deletes]

\* queue.Append(Event(...)), numbering the event
Push(s, x, y, t, z, CN, src, base) ==
  [s EXCEPT !.PQ = QueueAppend(s.PQ, Event(x, y, t, z, CN, s.nextId, src, base)),
            !.nextId = s.nextId + 1]

\* the first loop of TimingSimulation (timing = TRUE: the event at time
\* delay) and of FuncInit (timing = FALSE: the event at time 0)
RECURSIVE SeedLoop(_, _, _, _)
SeedLoop(s, i, cv, timing) ==
  IF i > Len(s.comps) THEN s
  ELSE LET g == Calculate(s.comps[i], cv)
           s1 == [s EXCEPT !.comps[i] = g]
       IN  SeedLoop(IF g.delay # 0
                    THEN Push(s1, NoComp, g.output, IF timing THEN g.delay ELSE 0,
                              g.outVal, 1, "seed", s.comps[i].outputValue)
                    ELSE s1,
                    i + 1, cv, timing)

\* newVal of a stimulus line
NewVal(newVals) == IF newVals = "0" THEN ZERO ELSE IF newVals = "1" THEN ONE ELSE Z

\* the loop `while (getline(InputFile, line))`: a line queues an event when
\* its name is the name of a node
RECURSIVE InputLoop(_, _, _, _)
InputLoop(s, lines, i, names) ==
  IF i > Len(lines) THEN s
  ELSE InputLoop(IF lines[i].input \in names
                 THEN Push(s, NoComp, lines[i].input, lines[i].time,
                           NewVal(lines[i].newVals), 1, "stim", -1)
                 ELSE s,
                 lines, i + 1, names)

\* is name one of the input names of gate g
IsInput(g, name) == \E j \in 1..Len(g.inputNames) : g.inputNames[j] = name

\* NodeUpdate: the loop over comps.  n is the number of the dispatch.
RECURSIVE GateLoop(_, _, _, _, _, _)
GateLoop(s, k, name, T, cv, n) ==
  IF k > Len(s.comps) THEN s
  ELSE IF IsInput(s.comps[k], name) /\ PreCalc(s.comps[k], cv) = 1
  THEN LET d == Delete(s.PQ, s.comps[k].output, s.comps[k])
           s1 == [s EXCEPT !.PQ = d[1],
                           !.comps[k] = d[2],
                           !.deletes = Append(s.deletes,
                              [k |-> k, n |-> n, dropped |-> d[3],
                               restored |-> d[2].outputValue,
                               node |-> cv[s.comps[k].output]])]
       IN  GateLoop(Push(s1, GateRef(k), NULL, T, Z, 0, "eval", -1),
                    k + 1, name, T, cv, n)
  ELSE GateLoop(s, k + 1, name, T, cv, n)

\* NodeUpdate: the loop over dffs
RECURSIVE DFFLoop(_, _, _, _, _)
DFFLoop(s, k, name, T, simType) ==
  IF k > Len(s.dffs) THEN s
  ELSE LET s1 == IF s.dffs[k].CLK = name
                 THEN Push(s, DFFRef(k), NULL, T, Z, 0, "eval", -1)
                 ELSE s
           r == ErrTimersD(s.dffs[k], T, simType)
           s2 == IF s.dffs[k].D = name
                 THEN [s1 EXCEPT !.dffs[k] = r[1], !.diag = s.diag \o r[2]]
                 ELSE s1
       IN  DFFLoop(s2, k + 1, name, T, simType)

\* simType 1 in the functional loops as well
SimTypeEverywhere == IF hist.mode \in {"timing", "functional"} THEN 1 ELSE 0

\* simType as the three loops pass it
SimType == IF hist.mode = "timing" THEN 1 ELSE 0

\* an iteration after which the loop is not left when the queue is empty
CommitNoExit(s, e) ==
  /\ PQ' = Pop(s.PQ)
  /\ comps' = s.comps
  /\ dffs' = s.dffs
  /\ diag' = s.diag
  /\ pc' = pc

Commit(s, e) ==
  /\ PQ' = Pop(s.PQ)
  /\ comps' = s.comps
  /\ dffs' = s.dffs
  /\ diag' = s.diag
  /\ pc' = IF Pop(s.PQ) = <<>> /\ pc = "run" THEN "done" ELSE pc

-----------------------------------------------------------------------------
(* Actions of a run. *)

\* TimingSimulation up to its main loop
TimingStart ==
  /\ pc = "parsed"
  /\ LET s == InputLoop(SeedLoop(SimState, 1, CurValue, TRUE), stim, 1, nodeNames)
     IN  /\ PQ' = s.PQ
         /\ comps' = s.comps
         /\ hist' = [hist EXCEPT !.mode = "timing", !.nextId = s.nextId]
         /\ pc' = IF s.PQ = <<>> THEN "done" ELSE "run"
  /\ dumpvars' = [n \in nodeNames |-> "0"]
  /\ UNCHANGED gen
  /\ UNCHANGED <<netlist, stim, dffs, nodeNames, CurValue, StuckAtOp,
                 inputnodes, outputnodes, vcd, diag>>

\* FunctionalSimulation up to the loop of FuncInit
FunctionalStart ==
  /\ pc = "parsed"
  /\ LET s == SeedLoop(SimState, 1, CurValue, FALSE)
     IN  /\ PQ' = s.PQ
         /\ comps' = s.comps
         /\ hist' = [hist EXCEPT !.mode = "functional", !.nextId = s.nextId]
  /\ pc' = "finit"
  /\ UNCHANGED gen
  /\ UNCHANGED <<netlist, stim, dffs, nodeNames, CurValue, StuckAtOp,
                 inputnodes, outputnodes, vcd, dumpvars, diag>>

\* FunctionalSimulation from the return of FuncInit to its main loop
FunctionalInput ==
  /\ pc = "finit"
  /\ PQ = <<>>
  /\ LET s == InputLoop(SimState, stim, 1, nodeNames)
     IN  /\ PQ' = s.PQ
         /\ hist' = [hist EXCEPT !.nextId = s.nextId]
         /\ pc' = IF s.PQ = <<>> THEN "done" ELSE "run"
  /\ dumpvars' = [n \in nodeNames |-> IF CurValue[n] = ONE THEN "1" ELSE "0"]
  /\ UNCHANGED gen
  /\ UNCHANGED <<netlist, stim, comps, dffs, nodeNames, CurValue, StuckAtOp,
                 inputnodes, outputnodes, vcd, diag>>

Running ==
  /\ pc \in {"finit", "run"}
  /\ PQ # <<>>
  /\ Len(hist.dispatched) < MaxDispatch

\* one iteration of a simulator's loop, the event on top a NodeUpdate
DispatchNode ==
  /\ Running
  /\ Top(PQ).CompNode = 1
  /\ LET e == Top(PQ)
         n == Len(hist.dispatched) + 1
         cv == UpdateValue(CurValue, StuckAtOp, e.eventNode, e.nextVal)
         s == DFFLoop(GateLoop(SimState, 1, e.eventNode, e.eventTime, cv, n),
                      1, e.eventNode, e.eventTime, SimType)
     IN  /\ CurValue' = cv
         /\ vcd' = IF pc = "run"
                   THEN Append(vcd, [time |-> e.eventTime, node |-> e.eventNode,
                                     bit |-> IF e.nextVal = ONE THEN "1" ELSE "0"])
                   ELSE vcd
         /\ Commit(s, e)
         /\ hist' = [hist EXCEPT !.nextId = s.nextId,
                                 !.now = e.eventTime,
                                 !.deletes = s.deletes,
                                 !.dispatched = Append(hist.dispatched, e),
                                 !.popped = Append(hist.popped, Top(s.PQ))]
  /\ UNCHANGED gen
  /\ UNCHANGED <<netlist, stim, nodeNames, StuckAtOp, inputnodes, outputnodes,
                 dumpvars>>

\* the output's NodeUpdate at T + delay in the functional loops as well
OutputTimeDelayed(T, delay) == T + delay

\* the time of the NodeUpdate that a gate evaluation at time T queues:
\* nextEvent.eventTime + delay in TimingSimulation, nextEvent.eventTime in
\* FuncInit and FunctionalSimulation
OutputTime(T, delay) ==
  IF hist.mode = "timing" /\ pc = "run" THEN T + delay ELSE T

\* one iteration, the event on top a GateEvaluate of a combinational gate
DispatchGate ==
  /\ Running
  /\ Top(PQ).CompNode = 0
  /\ Top(PQ).eventComp.cls = "ComboLogicGate"
  /\ LET e == Top(PQ)
         k == e.eventComp.k
         g == Calculate(comps[k], CurValue)
         s0 == [SimState EXCEPT !.comps[k] = g]
         s == IF g.delay # 0
              THEN Push(s0, NoComp, g.output, OutputTime(e.eventTime, g.delay),
                        g.outVal, 1, "gate", comps[k].outputValue)
              ELSE s0
     IN  /\ Commit(s, e)
         /\ hist' = [hist EXCEPT
              !.nextId = s.nextId,
              !.now = e.eventTime,
              !.dispatched = Append(hist.dispatched, e),
              !.popped = Append(hist.popped, Top(s.PQ)),
              !.pred = IF g.outputValue # comps[k].outputValue
                       THEN Append(hist.pred,
                              [k |-> k, n |-> Len(hist.dispatched) + 1,
                               T |-> e.eventTime,
                               due |-> e.eventTime +
                                  (IF g.outputValue = 1 THEN g.rise_Time
                                                        ELSE g.fall_Time),
                               value |-> g.outVal])
                       ELSE hist.pred]
  /\ UNCHANGED gen
  /\ UNCHANGED <<netlist, stim, nodeNames, CurValue, StuckAtOp, inputnodes,
                 outputnodes, vcd, dumpvars>>

\* one iteration, the event on top a GateEvaluate of a flip-flop
DispatchDFF ==
  /\ Running
  /\ Top(PQ).CompNode = 0
  /\ Top(PQ).eventComp.cls = "DFF"
  /\ LET e == Top(PQ)
         k == e.eventComp.k
         edge == dffs[k].lastClockState = FALSE /\ CurValue[dffs[k].CLK] = ONE
         r == DFFCalculate(dffs[k], CurValue, e.eventTime, SimType)
         f == r[1]
         s0 == [SimState EXCEPT !.dffs[k] = f, !.diag = diag \o r[2]]
         src == IF edge THEN "edge" ELSE "noedge"
         base == IF edge THEN CurValue[f.D] ELSE -1
         s == Push(Push(s0, NoComp, f.Q, e.eventTime, f.outQ, 1, src, base),
                   NoComp, f.Qn, e.eventTime, f.outQn, 1, src, base)
     IN  /\ Commit(s, e)
         /\ hist' = [hist EXCEPT
              !.nextId = s.nextId,
              !.now = e.eventTime,
              !.dispatched = Append(hist.dispatched, e),
              !.popped = Append(hist.popped, Top(s.PQ)),
              !.edges = IF edge
                        THEN Append(hist.edges,
                               [k |-> k, t |-> e.eventTime, d |-> CurValue[f.D]])
                        ELSE hist.edges]
  /\ UNCHANGED gen
  /\ UNCHANGED <<netlist, stim, nodeNames, CurValue, StuckAtOp, inputnodes,
                 outputnodes, vcd, dumpvars>>

Next ==
  \/ Construct
  \/ CreateStuckAt
  \/ TimingStart
  \/ FunctionalStart
  \/ FunctionalInput
  \/ DispatchNode
  \/ DispatchGate
  \/ DispatchDFF

Spec == Init /\ [][Next]_vars

\* main() before it has read the names of the netlist and stimulus files
TimingInit ==
  /\ pc = "main"
  /\ netlist = <<>>
  /\ stim = <<>>
  /\ comps = <<>>
  /\ dffs = <<>>
  /\ nodeNames = {}
  /\ CurValue = <<>>
  /\ StuckAtOp = <<>>
  /\ inputnodes = {}
  /\ outputnodes = {}
  /\ PQ = <<>>
  /\ vcd = <<>>
  /\ dumpvars = <<>>
  /\ diag = <<>>
  /\ hist = HistInit(0)
  /\ gen = [pc |-> "none"]

\* main() reads the names of a netlist file and of a stimulus file
ReadFileNames ==
  /\ pc = "main"
  /\ \E b \in 1..Len(Benches) :
       /\ netlist' = Benches[b].lines
       /\ stim' \in StimFiles(b)
       /\ hist' = HistInit(b)
  /\ pc' = "new"
  /\ UNCHANGED gen
  /\ UNCHANGED <<comps, dffs, nodeNames, CurValue, StuckAtOp, inputnodes,
                 outputnodes, PQ, vcd, dumpvars, diag>>

TimingNext ==
  \/ ReadFileNames
  \/ Construct
  \/ TimingStart
  \/ DispatchNode
  \/ DispatchGate
  \/ DispatchDFF

\* the timing simulation; its main loop runs on: `while (!(queue.PQ).empty())`
\* takes its next iteration whenever the queue holds an event.  This is weak
\* fairness of the iteration, with Running written for the ENABLED of the
\* iteration: whenever Running holds, the event on top is a NodeUpdate, a
\* GateEvaluate of a gate or a GateEvaluate of a flip-flop, and its dispatch
\* lengthens hist.dispatched
TimingSpec ==
  /\ TimingInit
  /\ [][TimingNext]_vars
  /\ \/ []<>(~Running)
     \/ []<><<DispatchNode \/ DispatchGate \/ DispatchDFF>>_vars

-----------------------------------------------------------------------------
(* FunctionalSimulation as one call, for the callers that run it to the    *)
(* end (the fault generator).  A circuit is a record                       *)
(*   comps, dffs, cv (CurValue by name), sa (StuckAtOp by name);           *)
(* a run threads a record                                                  *)
(*   s (as SimState), cv, sa, vcd, out (TRUE where the loop writes the     *)
(*   VCD file: in FunctionalSimulation, not in FuncInit), n (iterations).  *)

\* queue.Pop() at the end of an iteration
PopEvent(s) == [s EXCEPT !.PQ = Pop(s.PQ)]

\* the iteration for a NodeUpdate e, cv the node values after UpdateValue
FuncNodeUpdate(r, e, cv) ==
  [r EXCEPT !.s = PopEvent(DFFLoop(GateLoop(r.s, 1, e.eventNode, e.eventTime,
                                            cv, r.n + 1),
                                   1, e.eventNode, e.eventTime, 0)),
            !.cv = cv,
            !.n = r.n + 1,
            !.vcd = IF r.out
                    THEN Append(r.vcd,
                           [time |-> e.eventTime, node |-> e.eventNode,
                            bit |-> IF e.nextVal = ONE THEN "1" ELSE "0"])
                    ELSE r.vcd]

\* the iteration for a GateEvaluate e of gate k, g the gate after Calculate
FuncGateEvaluate(r, e, k, g) ==
  [r EXCEPT !.s = PopEvent(IF g.delay # 0
                           THEN Push([r.s EXCEPT !.comps[k] = g], NoComp,
                                     g.output, e.eventTime, g.outVal, 1, "gate",
                                     r.s.comps[k].outputValue)
                           ELSE [r.s EXCEPT !.comps[k] = g]),
            !.n = r.n + 1]

\* the iteration for a GateEvaluate e of flip-flop k, f the flip-flop after
\* Calculate
FuncDFFEvaluate(r, e, k, f, src, base) ==
  [r EXCEPT !.s = PopEvent(Push(Push([r.s EXCEPT !.dffs[k] = f], NoComp, f.Q,
                                     e.eventTime, f.outQ, 1, src, base),
                                NoComp, f.Qn, e.eventTime, f.outQn, 1, src, base)),
            !.n = r.n + 1]

\* one iteration of the loop of FuncInit and of FunctionalSimulation
FuncDispatch(r, e) ==
  IF e.CompNode = 1
  THEN FuncNodeUpdate(r, e, UpdateValue(r.cv, r.sa, e.eventNode, e.nextVal))
  ELSE IF e.eventComp.cls = "ComboLogicGate"
  THEN FuncGateEvaluate(r, e, e.eventComp.k,
                        Calculate(r.s.comps[e.eventComp.k], r.cv))
  ELSE FuncDFFEvaluate(r, e, e.eventComp.k,
                       DFFCalculate(r.s.dffs[e.eventComp.k], r.cv, e.eventTime, 0)[1],
                       IF r.s.dffs[e.eventComp.k].lastClockState = FALSE
                            /\ r.cv[r.s.dffs[e.eventComp.k].CLK] = ONE
                       THEN "edge" ELSE "noedge",
                       IF r.s.dffs[e.eventComp.k].lastClockState = FALSE
                            /\ r.cv[r.s.dffs[e.eventComp.k].CLK] = ONE
                       THEN r.cv[r.s.dffs[e.eventComp.k].D] ELSE -1)

\* `while (!(queue.PQ).empty())`, cut off like Running
RECURSIVE FuncLoop(_)
FuncLoop(r) ==
  IF r.s.PQ = <<>> \/ r.n >= MaxDispatch THEN r
  ELSE FuncLoop(FuncDispatch(r, Top(r.s.PQ)))

\* Circuit::FuncInit on circuit c
FuncInit(c) ==
  FuncLoop([s |-> SeedLoop([PQ |-> <<>>, comps |-> c.comps, dffs |-> c.dffs,
                            diag |-> <<>>, nextId |-> 1, deletes |-> <<>>],
                           1, c.cv, FALSE),
            cv |-> c.cv, sa |-> c.sa, vcd |-> <<>>, dumpvars |-> <<>>,
            out |-> FALSE, n |-> 0])

\* FunctionalSimulation from the return of FuncInit to its main loop
FuncInput(r, lines) ==
  [r EXCEPT !.s = InputLoop(r.s, lines, 1, DOMAIN r.cv),
            !.dumpvars = [n \in DOMAIN r.cv |->
                            IF r.cv[n] = ONE THEN "1" ELSE "0"],
            !.out = TRUE]

\* what a run leaves: the circuit, the VCD file, and whether the queue is
\* empty
FuncReturn(r) ==
  [circuit |-> [comps |-> r.s.comps, dffs |-> r.s.dffs, cv |-> r.cv, sa |-> r.sa],
   dumpvars |-> r.dumpvars, vcd |-> r.vcd, drained |-> r.s.PQ = <<>>]

\* Circuit::FunctionalSimulation(z), z a file of the lines given
FunctionalRun(c, lines) == FuncReturn(FuncLoop(FuncInput(FuncInit(c), lines)))

\* new Circuit(netlistFile), the flip-flops' uninitialised members uq, uqn
NewCircuit(lines, uq, uqn) ==
  LET c == ReadNetlist(lines, 1, [comps |-> <<>>, dffs |-> <<>>, names |-> {}],
                       uq, uqn)
  IN  [comps |-> c.comps, dffs |-> c.dffs,
       cv |-> [n \in c.names |-> ZERO], sa |-> [n \in c.names |-> 0]]

-----------------------------------------------------------------------------
(* FaultVectorGenerator.  gen is a record                                  *)
(*   pc:       "none" (no generator), "new", "built" (constructed),        *)
(*             "trial" (in the for loop of Generate), "best" (after it),   *)
(*             "done" (Generate returned),                                 *)
(*   GoodCircuit, faultyCircuits (by fault <<node, value>>),               *)
(*   x, total_faults, vector_cnt, caseCnt, responses,                      *)
(*   detected: total_coverage * total_faults, a sum of whole numbers,      *)
(*   file: the vectors written to FaultVectors.txt, in order,              *)
(*   last: the largest detectedFaults of the round that ended last, -1     *)
(*         before the first.                                               *)

\* the nodes a sim variable of a generator run does not use
simvars == <<pc, netlist, stim, comps, dffs, nodeNames, CurValue, StuckAtOp,
             inputnodes, outputnodes, PQ, vcd, dumpvars, diag, hist>>

\* the order of set<string>: the names the benches use, ascending
NameOrder == <<"A", "B", "C", "CLK", "D", "Q", "Qn", "W", "X", "Y">>

\* the names of S in the order of NameOrder
RECURSIVE InOrder(_, _)
InOrder(S, i) ==
  IF i > Len(NameOrder) THEN <<>>
  ELSE (IF NameOrder[i] \in S THEN <<NameOrder[i]>> ELSE <<>>) \o InOrder(S, i + 1)

\* a CreateStuckAt that sets the value and leaves the node unlocked
StuckAtValueOnly(c, x, y) == [c EXCEPT !.cv = MakeStuckAtValue(c.cv, x, y)]

\* Circuit::CreateStuckAt on a circuit record
StuckAtCircuit(c, x, y) ==
  [c EXCEPT !.cv = MakeStuckAtValue(c.cv, x, y), !.sa = MakeStuckAtOp(c.sa, x)]

\* the file testVector.txt: a line `0 <name> <randombit>` for every input name
RECURSIVE VectorLines(_, _, _)
VectorLines(names, i, bits) ==
  IF i > Len(names) THEN <<>>
  ELSE <<StimLine(0, names[i], IF bits[names[i]] = 1 THEN "1" ELSE "0")>>
       \o VectorLines(names, i + 1, bits)

\* Circuit::CircuitInputs, Circuit::CircuitOutputs: (name, CurValue) of the
\* nodes of a set, here as a function of the name
NodeValues(c, S) == [n \in S |-> c.cv[n]]

\* Circuit::CircuitOutputs: the tuples (name, CurValue) of the output nodes,
\* order the order in which set<Node*> holds them (the order of their
\* addresses)
CircuitOutputs(c, order) ==
  [i \in 1..Len(order) |-> <<order[i], c.cv[order[i]]>>]

\* a Calculate that compares the faulty outputs in the order they come in
ReorderNone(correctoutputs, faultyoutputs, j) == faultyoutputs

\* reorder_faultyoutputs: for every tuple j of correctoutputs the tuples of
\* faultyoutputs with its name, in the order of faultyoutputs
RECURSIVE Reorder(_, _, _)
Reorder(correctoutputs, faultyoutputs, j) ==
  IF j > Len(correctoutputs) THEN <<>>
  ELSE SelectSeq(faultyoutputs, LAMBDA k : k[1] = correctoutputs[j][1])
       \o Reorder(correctoutputs, faultyoutputs, j + 1)

\* the loop of FaultVectorGenerator::Calculate over faultyCircuits: every
\* circuit is simulated; it is busted when its outputs, put in the order of
\* the good circuit's by name, differ from the good circuit's
FaultyRuns(faulty, lines) ==
  [f \in DOMAIN faulty |-> FunctionalRun(faulty[f], lines).circuit]

\* every faulty circuit counted as busted
BustedAll(good, faulty, outs) == DOMAIN faulty

\* the circuits a faulty run busted
BustedCircuits(good, faulty, outs) ==
  {f \in DOMAIN faulty : NodeValues(faulty[f], outs) # NodeValues(good, outs)}

\* a Calculate that counts every simulated faulty circuit as detected
ResponseCountsAll(good, faulty, ins, outs) ==
  [good |-> good, faulty |-> faulty,
   response |-> [detectedFaults |-> Cardinality(DOMAIN faulty),
                 bustedCircuits |-> BustedCircuits(good, faulty, outs),
                 test_inputs |-> NodeValues(good, ins)]]

\* what FaultVectorGenerator::Calculate returns, good and faulty the
\* circuits after their runs
Response(good, faulty, ins, outs) ==
  [good |-> good, faulty |-> faulty,
   response |-> [detectedFaults |-> Cardinality(BustedCircuits(good, faulty, outs)),
                 bustedCircuits |-> BustedCircuits(good, faulty, outs),
                 test_inputs |-> NodeValues(good, ins)]]

\* FaultVectorGenerator::Calculate(x)
FVGCalculate(g, lines) ==
  Response(FunctionalRun(g.GoodCircuit, lines).circuit,
           FaultyRuns(g.faultyCircuits, lines),
           FindInputs(g.GoodCircuit.comps, DOMAIN g.GoodCircuit.cv),
           FindOutputs(g.GoodCircuit.comps, DOMAIN g.GoodCircuit.cv))

\* the test of the while loop with a tolerance of 0.1 in place of 0.001
MoreCoverageLoose(x, detected, total_faults) ==
  10 * x * total_faults - 1000 * detected > 100 * total_faults

\* a while test that also loops when the coverage has just reached the target
MoreCoverageOrEqual(x, detected, total_faults) ==
  10 * x * total_faults - 1000 * detected >= 0

\* (required_coverage - total_coverage) > 0.001, with required_coverage =
\* x/100 and total_coverage = detected/total_faults
MoreCoverage(x, detected, total_faults) ==
  10 * x * total_faults - 1000 * detected > total_faults

\* a max_element that returns the last response with the largest detectedFaults
LargestCoverageLast(responses) ==
  CHOOSE i \in 1..Len(responses) :
    /\ \A j \in 1..Len(responses) :
         responses[j].detectedFaults <= responses[i].detectedFaults
    /\ \A j \in (i + 1)..Len(responses) :
         responses[j].detectedFaults < responses[i].detectedFaults

\* max_element: the first response with the largest detectedFaults
LargestCoverage(responses) ==
  CHOOSE i \in 1..Len(responses) :
    /\ \A j \in 1..Len(responses) :
         responses[j].detectedFaults <= responses[i].detectedFaults
    /\ \A j \in 1..(i - 1) :
         responses[j].detectedFaults < responses[i].detectedFaults

\* the coverage constraints asked for
Targets == {0, 25, 50, 51, 100}

GenInit ==
  \E b \in {i \in 1..Len(Benches) : Benches[i].faults} :
    /\ pc = "new"
    /\ netlist = Benches[b].lines
    /\ stim = <<>>
    /\ comps = <<>>
    /\ dffs = <<>>
    /\ nodeNames = {}
    /\ CurValue = <<>>
    /\ StuckAtOp = <<>>
    /\ inputnodes = {}
    /\ outputnodes = {}
    /\ PQ = <<>>
    /\ vcd = <<>>
    /\ dumpvars = <<>>
    /\ diag = <<>>
    /\ hist = HistInit(b)
    /\ gen = [pc |-> "new"]

\* new FaultVectorGenerator(netlistFile)
FVGConstruct ==
  /\ gen.pc = "new"
  /\ \E uq \in Indeterminate, uqn \in Indeterminate :
       LET c == NewCircuit(netlist, uq, uqn)
       IN  gen' = [pc |-> "built",
                   GoodCircuit |-> c,
                   faultyCircuits |->
                     [f \in (DOMAIN c.cv) \X {ZERO, ONE} |->
                        StuckAtCircuit(c, f[1], f[2])]]
  /\ UNCHANGED simvars

\* Generate(x) up to the first test of its while loop
Generate ==
  /\ gen.pc = "built"
  /\ \E x \in Targets :
       LET total_faults == Cardinality(DOMAIN gen.faultyCircuits)
       IN  gen' = [GoodCircuit |-> gen.GoodCircuit,
                   faultyCircuits |-> gen.faultyCircuits,
                   x |-> x,
                   total_faults |-> total_faults,
                   detected |-> 0,
                   vector_cnt |-> 0,
                   file |-> <<>>,
                   last |-> -1,
                   caseCnt |-> total_faults,
                   responses |-> <<>>,
                   pc |-> IF MoreCoverage(x, 0, total_faults)
                          THEN "trial" ELSE "done"]
  /\ UNCHANGED simvars

\* the generator after a trial, r what Calculate did
AfterTrial(g, r) ==
  [g EXCEPT !.GoodCircuit = r.good,
            !.faultyCircuits = r.faulty,
            !.responses = Append(g.responses, r.response)]

\* GoodCircuit->CircuitInputNames()
CircuitInputNames(g) == FindInputs(g.GoodCircuit.comps, DOMAIN g.GoodCircuit.cv)

\* one iteration of `for (int i = 0; i < caseCnt; i++)`
Trial ==
  /\ gen.pc = "trial"
  /\ Len(gen.responses) < gen.caseCnt
  /\ \E randombit \in [CircuitInputNames(gen) -> {0, 1}] :
       gen' = AfterTrial(gen,
                FVGCalculate(gen, VectorLines(InOrder(CircuitInputNames(gen), 1),
                                              1, randombit)))
  /\ UNCHANGED simvars

\* the rest of the body of the while loop, and its next test
RoundEnd ==
  /\ gen.pc = "trial"
  /\ Len(gen.responses) = gen.caseCnt
  /\ LET largest_coverage == gen.responses[LargestCoverage(gen.responses)]
         faults_covered == largest_coverage.bustedCircuits
         detected == gen.detected + largest_coverage.detectedFaults
         recorded == largest_coverage.detectedFaults # 0
         faulty == IF recorded
                   THEN [f \in DOMAIN gen.faultyCircuits \ faults_covered |->
                           gen.faultyCircuits[f]]
                   ELSE gen.faultyCircuits
     IN  gen' = [gen EXCEPT
                   !.detected = detected,
                   !.faultyCircuits = faulty,
                   !.vector_cnt = IF recorded THEN gen.vector_cnt + 1
                                  ELSE gen.vector_cnt,
                   !.file = IF recorded
                            THEN Append(gen.file, largest_coverage.test_inputs)
                            ELSE gen.file,
                   !.last = largest_coverage.detectedFaults,
                   !.caseCnt = Cardinality(DOMAIN faulty),
                   !.responses = <<>>,
                   !.pc = IF MoreCoverage(gen.x, detected, gen.total_faults)
                          THEN "trial" ELSE "done"]
  /\ UNCHANGED simvars

GenNext ==
  \/ FVGConstruct
  \/ Generate
  \/ Trial
  \/ RoundEnd

GenSpec == GenInit /\ [][GenNext]_vars

\* the trial whose rand() % 2 draws are the bits of the pattern
TrialWith(bits) ==
  /\ Trial
  /\ \A n \in CircuitInputNames(gen) :
       gen'.responses[Len(gen'.responses)].test_inputs[n]
         = (IF bits[n] = 1 THEN ONE ELSE ZERO)

\* the fault generator runs on, and rand() is fair: a pattern that could be
\* drawn again and again is drawn again and again.  The last conjunct is
\* strong fairness of TrialWith(bits), with the ENABLED of a trial written
\* out: a trial can be made exactly when the round has trials left
FairGenSpec ==
  /\ GenSpec
  /\ WF_vars(FVGConstruct)
  /\ WF_vars(Generate)
  /\ WF_vars(RoundEnd)
  /\ \A bits \in [{"A", "B"} -> {0, 1}] :
       \/ <>[](~(gen.pc = "trial" /\ Len(gen.responses) < gen.caseCnt))
       \/ []<><<TrialWith(bits)>>_vars

-----------------------------------------------------------------------------
(* A circuit that is locked, simulated, unlocked and simulated again.      *)
(* pc is "new", "parsed", "ran" (after the run with the lock), "unlocked", *)
(* "reran" (after the run without it).                                     *)

\* Node::UndoStuckAt on node x
UndoStuckAtOp(sa, x) == [sa EXCEPT ![x] = 0]

\* the Circuit of the variables
ThisCircuit == [comps |-> comps, dffs |-> dffs, cv |-> CurValue, sa |-> StuckAtOp]

TripInit == Init /\ Benches[hist.bench].faults

\* CircuitTestFunc->FunctionalSimulation(inputFile) on the circuit as it is,
\* from its call to its return
FunctionalSimulation ==
  /\ pc \in {"parsed", "unlocked"}
  /\ hist.lock # <<>>
  /\ comps' = FunctionalRun(ThisCircuit, stim).circuit.comps
  /\ dffs' = FunctionalRun(ThisCircuit, stim).circuit.dffs
  /\ CurValue' = FunctionalRun(ThisCircuit, stim).circuit.cv
  /\ dumpvars' = FunctionalRun(ThisCircuit, stim).dumpvars
  /\ vcd' = FunctionalRun(ThisCircuit, stim).vcd
  /\ pc' = IF pc = "parsed" THEN "ran" ELSE "reran"
  /\ hist' = [hist EXCEPT !.mode = "functional"]
  /\ UNCHANGED <<netlist, stim, nodeNames, StuckAtOp, inputnodes, outputnodes,
                 PQ, diag, gen>>

\* UndoStuckAt on the node that CreateStuckAt locked
UndoStuckAt ==
  /\ pc = "ran"
  /\ StuckAtOp' = UndoStuckAtOp(StuckAtOp, hist.lock[1])
  /\ pc' = "unlocked"
  /\ UNCHANGED <<netlist, stim, comps, dffs, nodeNames, CurValue, inputnodes,
                 outputnodes, PQ, vcd, dumpvars, diag, hist, gen>>

TripNext ==
  \/ Construct
  \/ CreateStuckAt
  \/ FunctionalSimulation
  \/ UndoStuckAt

TripSpec == TripInit /\ [][TripNext]_vars

-----------------------------------------------------------------------------
(* One gate and one call of its Calculate: the gate has any kind and 1 to  *)
(* MaxInputs inputs, its input nodes hold any bits, and its committed      *)
(* output is 0 or 1.  pc is "gate", then "evaluated".                      *)

\* `inputPtr = new Node*[8]`: the inputs a gate can have
MaxInputs == 8

InputNameList == <<"A", "B", "C", "D", "E", "F", "G", "H">>

\* new Circuit for the one-line netlist, then node values and a committed
\* output as earlier events may have left them
GateCircuit(c, n, bits, o) ==
  /\ comps = <<[c.comps[1] EXCEPT !.outputValue = o,
                                  !.outVal = IF o = 0 THEN ZERO ELSE ONE]>>
  /\ dffs = c.dffs
  /\ nodeNames = c.names
  /\ CurValue = [x \in c.names |->
                   IF \E i \in 1..n : InputNameList[i] = x /\ bits[i] = 1
                   THEN ONE ELSE ZERO]
  /\ StuckAtOp = [x \in c.names |-> 0]
  /\ inputnodes = FindInputs(c.comps, c.names)
  /\ outputnodes = FindOutputs(c.comps, c.names)

GateInit ==
  \E kind \in ComboLogicOptions, n \in 1..MaxInputs, o \in {0, 1} :
    \E bits \in [1..n -> {0, 1}] :
      /\ pc = "gate"
      /\ netlist = <<GateLine("Y", kind, 1, 2, SubSeq(InputNameList, 1, n))>>
      /\ stim = <<>>
      /\ GateCircuit(ReadNetlist(netlist, 1,
                                 [comps |-> <<>>, dffs |-> <<>>, names |-> {}],
                                 ZERO, ZERO), n, bits, o)
      /\ PQ = <<>>
      /\ vcd = <<>>
      /\ dumpvars = <<>>
      /\ diag = <<>>
      /\ hist = HistInit(0)
      /\ gen = [pc |-> "none"]

\* comps[0]->Calculate()
Evaluate ==
  /\ pc = "gate"
  /\ comps' = [comps EXCEPT ![1] = Calculate(comps[1], CurValue)]
  /\ pc' = "evaluated"
  /\ UNCHANGED <<netlist, stim, dffs, nodeNames, CurValue, StuckAtOp, inputnodes,
                 outputnodes, PQ, vcd, dumpvars, diag, hist, gen>>

GateNext == Evaluate

GateSpec == GateInit /\ [][GateNext]_vars

-----------------------------------------------------------------------------
(* Vocabulary of the properties. *)

Started == pc \in {"run", "done"}
Timing == hist.mode = "timing"

\* a NodeUpdate for node n is in the queue
Pending(n) == \E i \in 1..Len(PQ) : PQ[i].CompNode = 1 /\ PQ[i].eventNode = n

\* every event with a timestamp up to t has been dispatched, none after t
DispatchedThrough(t) ==
  /\ hist.now <= t
  /\ PQ = <<>> \/ Top(PQ).eventTime > t

\* the run was not cut off by MaxDispatch
Drained == pc = "done"

\* the stimulus file drives only nodes no gate drives, with the tokens 0 and 1
PlainStimulus ==
  \A i \in 1..Len(stim) :
    /\ stim[i].newVals \in {"0", "1"}
    /\ \A k \in 1..Len(comps) : comps[k].output # stim[i].input

\* no gate reads its own output
NoSelfLoop == \A k \in 1..Len(comps) : ~IsInput(comps[k], comps[k].output)

Bit(v) == IF v = 0 THEN ZERO ELSE ONE

Scenario1 ==
  /\ hist.bench = 1
  /\ stim = <<StimLine(0, "A", "1"), StimLine(0, "B", "0"),
              StimLine(5, "B", "1"), StimLine(6, "B", "0")>>
  /\ Timing

-----------------------------------------------------------------------------
(* C1.  In a timing simulation of a circuit with no stuck-at lock, at      *)
(* every time t (all events with timestamp <= t dispatched) and for every  *)
(* combinational gate with no NodeUpdate pending for its output node, the  *)
(* output node's value is the gate's function of the values of its input   *)
(* nodes.  Stated here for the stimulus files that drive only undriven     *)
(* nodes with 0 and 1 and for gates that do not read their own output; the *)
(* claim is for every netlist and stimulus.                                *)
C1_OutputFollowsInputs ==
  (Started /\ Timing /\ hist.lock = <<>> /\ PlainStimulus /\ NoSelfLoop
     /\ DispatchedThrough(hist.now))
  => \A k \in 1..Len(comps) :
       ~Pending(comps[k].output)
       => CurValue[comps[k].output] = Bit(TempOutput(comps[k], CurValue))

(* C2.  In a timing simulation, when Delete drops a pending NodeUpdate     *)
(* that an evaluation of the gate had scheduled, the gate's committed      *)
(* output (outputValue) is restored to the value it had before that        *)
(* evaluation.  Stated here for the stimulus files that drive only         *)
(* undriven nodes with 0 and 1 and for gates that do not read their own    *)
(* output; the claim is for every sequence of input changes.               *)
C2_RevertRestoresBaseline ==
  (Timing /\ PlainStimulus /\ NoSelfLoop) =>
  \A i \in 1..Len(hist.deletes) :
    \A j \in 1..Len(hist.deletes[i].dropped) :
      hist.deletes[i].dropped[j].src \in {"seed", "gate"}
      => hist.deletes[i].restored = hist.deletes[i].dropped[j].base

(* C3.  Timing simulation of `Y .AND 3 3 A B` with the stimulus            *)
(* 0 A 1; 0 B 0; 5 B 1; 6 B 0 dispatches no NodeUpdate on Y, writes no     *)
(* transition record for Y, and Y stays 0.                                 *)
C3_GlitchSuppressed ==
  (Scenario1 /\ pc \in {"run", "done"})
  => /\ \A i \in 1..Len(hist.dispatched) : hist.dispatched[i].eventNode # "Y"
     /\ \A i \in 1..Len(vcd) : vcd[i].node # "Y"
     /\ CurValue["Y"] = ZERO
     /\ Drained => Len(hist.dispatched) = 6

\* the scenario has run to the end, and the pulse on B had scheduled an
\* update of Y that was dropped
C3_Witness ==
  /\ Scenario1
  /\ Drained
  /\ \E i \in 1..Len(hist.deletes) :
       /\ hist.deletes[i].dropped # <<>>
       /\ hist.deletes[i].dropped[1].eventNode = "Y"
       /\ hist.deletes[i].dropped[1].eventTime = 8

(* C4.  In a timing or functional run no event is dispatched after an      *)
(* event with a larger timestamp has been dispatched.                      *)
C4_AscendingTime ==
  \A i \in 1..Len(hist.dispatched) : \A j \in 1..Len(hist.dispatched) :
    i < j => hist.dispatched[i].eventTime <= hist.dispatched[j].eventTime

\* a timing run to the end on a stimulus file that is not sorted by time,
\* with a gate evaluation that scheduled an update after its delay
C4_Witness ==
  /\ Drained
  /\ Timing
  /\ \E i \in 1..Len(stim) : \E j \in 1..Len(stim) :
       i < j /\ stim[i].time > stim[j].time
  /\ \E i \in 1..Len(hist.dispatched) :
       hist.dispatched[i].src = "gate" /\ hist.dispatched[i].eventTime > 0

(* C5.  Events with the same timestamp are dispatched in the order in      *)
(* which they were inserted into the queue.                                *)
C5_FifoTieBreak ==
  \A i \in 1..Len(hist.dispatched) : \A j \in 1..Len(hist.dispatched) :
    (i < j /\ hist.dispatched[i].eventTime = hist.dispatched[j].eventTime)
    => hist.dispatched[i].id < hist.dispatched[j].id

(* C6.  Once CreateStuckAt(x, y) has locked node x at y, the value of x is *)
(* y in every state, whatever the run writes to it.                        *)
C6_LockedValueStays ==
  hist.lock # <<>> => CurValue[hist.lock[1]] = hist.lock[2]

\* a run has dispatched, on the locked node, a NodeUpdate of the stimulus
\* file and one of a gate with another value than the locked one
C6_Witness ==
  /\ hist.lock # <<>>
  /\ hist.lock[1] = "Y"
  /\ \E i \in 1..Len(hist.dispatched) :
       /\ hist.dispatched[i].eventNode = "Y"
       /\ hist.dispatched[i].src = "gate"
       /\ hist.dispatched[i].nextVal # hist.lock[2]

(* C7.  For every flip-flop, from the initial state of the circuit on,     *)
(* whenever neither Q nor Qn has a NodeUpdate pending, the value of Qn is  *)
(* the complement of the value of Q.                                       *)
C7_QnComplementsQ ==
  pc # "new"
  => \A k \in 1..Len(dffs) :
       (~Pending(dffs[k].Q) /\ ~Pending(dffs[k].Qn))
       => \/ CurValue[dffs[k].Q] = ZERO /\ CurValue[dffs[k].Qn] = ONE
          \/ CurValue[dffs[k].Q] = ONE /\ CurValue[dffs[k].Qn] = ZERO

(* C8.  The value of Q changes only by the NodeUpdate that a rising clock  *)
(* edge scheduled, and to the value D had at that edge; the value of Qn    *)
(* changes only by the NodeUpdate that a rising clock edge scheduled.      *)
C8_QChangesOnRisingEdgeOnly ==
  [][\A k \in 1..Len(dffs) :
       /\ CurValue'[dffs[k].Q] # CurValue[dffs[k].Q]
          => /\ Top(PQ).eventNode = dffs[k].Q
             /\ Top(PQ).src = "edge"
             /\ CurValue'[dffs[k].Q] = Top(PQ).base
       /\ CurValue'[dffs[k].Qn] # CurValue[dffs[k].Qn]
          => /\ Top(PQ).eventNode = dffs[k].Qn
             /\ Top(PQ).src = "edge"]_vars

(* C9.  In a timing simulation, when the evaluation of a gate at time T    *)
(* changes its committed output to v, then at time T + delay (delay the    *)
(* rise time for v = 1, the fall time for v = 0, all events up to that     *)
(* time dispatched) the output node holds v, unless Delete was called for  *)
(* the gate's output after the evaluation.                                 *)
C9_OutputMatchesPrediction ==
  (Started /\ Timing /\ hist.lock = <<>> /\ PlainStimulus /\ NoSelfLoop)
  => \A i \in 1..Len(hist.pred) :
       (/\ DispatchedThrough(hist.pred[i].due)
        /\ ~\E d \in 1..Len(hist.deletes) :
              /\ hist.deletes[d].k = hist.pred[i].k
              /\ hist.deletes[d].n > hist.pred[i].n)
       => CurValue[comps[hist.pred[i].k].output] = hist.pred[i].value

(* C10.  After the netlist is parsed, a node is in inputnodes iff it is    *)
(* the output of no gate and the Q or Qn of no flip-flop, and it is in     *)
(* outputnodes iff it is the input of no gate and the D or CLK of no       *)
(* flip-flop.                                                              *)
C10_Classification ==
  pc # "new"
  => \A n \in nodeNames :
       /\ n \in inputnodes
          <=> /\ \A k \in 1..Len(comps) : comps[k].output # n
              /\ \A k \in 1..Len(dffs) : dffs[k].Q # n /\ dffs[k].Qn # n
       /\ n \in outputnodes
          <=> /\ \A k \in 1..Len(comps) : ~IsInput(comps[k], n)
              /\ \A k \in 1..Len(dffs) : dffs[k].D # n /\ dffs[k].CLK # n

(* C11.  Dispatching the NodeUpdate of a stimulus record whose token is    *)
(* neither 0 nor 1 changes no node value, and every gate's function of     *)
(* its input nodes has the value it had before.                            *)
C11_OtherTokenNoChange ==
  [][(Running /\ Top(PQ).CompNode = 1 /\ Top(PQ).src = "stim"
        /\ Top(PQ).nextVal = Z)
     => /\ CurValue' = CurValue
        /\ \A k \in 1..Len(comps) :
             TempOutput(comps[k], CurValue') = TempOutput(comps[k], CurValue)]_vars

\* the flip-flop evaluation on top of the queue sees a rising clock edge
RisingEdge(k) ==
  /\ Running
  /\ Top(PQ).CompNode = 0
  /\ Top(PQ).eventComp = DFFRef(k)
  /\ dffs[k].lastClockState = FALSE
  /\ CurValue[dffs[k].CLK] = ONE

Complement(v) == IF v = ONE THEN ZERO ELSE ONE

\* the last rising edge flip-flop k saw, if any
LastEdge(k) ==
  LET S == {i \in 1..Len(hist.edges) : hist.edges[i].k = k}
  IN  IF S = {} THEN <<>>
      ELSE <<hist.edges[CHOOSE i \in S : \A j \in S : j <= i]>>

\* what C12 says of one step
SetupStep ==
  \A k \in 1..Len(dffs) :
    (Timing /\ RisingEdge(k)) =>
      LET t == Top(PQ).eventTime
          late == t - dffs[k].Dchange_time < dffs[k].setupTime
      IN  /\ diag' = IF late
                     THEN Append(diag, [kind |-> "setup", time |-> t,
                                        node |-> dffs[k].Q])
                     ELSE diag
          /\ dffs'[k].outQ = CurValue[dffs[k].D]
          /\ dffs'[k].outQn = Complement(CurValue[dffs[k].D])
          /\ \E i \in 1..Len(PQ') :
               /\ PQ'[i].CompNode = 1 /\ PQ'[i].eventNode = dffs[k].Q
               /\ PQ'[i].eventTime = t /\ PQ'[i].nextVal = CurValue[dffs[k].D]
          /\ \E i \in 1..Len(PQ') :
               /\ PQ'[i].CompNode = 1 /\ PQ'[i].eventNode = dffs[k].Qn
               /\ PQ'[i].eventTime = t
               /\ PQ'[i].nextVal = Complement(CurValue[dffs[k].D])
          /\ pc' = "run"

\* Q and Qn once the events of the time of the last rising edge are done
Latched ==
  \A k \in 1..Len(dffs) :
    (Timing /\ LastEdge(k) # <<>> /\ DispatchedThrough(LastEdge(k)[1].t))
    => /\ CurValue[dffs[k].Q] = LastEdge(k)[1].d
       /\ CurValue[dffs[k].Qn] = Complement(LastEdge(k)[1].d)

(* C12.  In a timing simulation, a flip-flop evaluation at time t that     *)
(* sees a rising clock edge reports a setup violation iff                  *)
(* t - Dchange_time < setupTime; in either case it stores D in outQ and    *)
(* the complement in outQn, queues the two NodeUpdates at time t, and the  *)
(* run goes on; once the events of time t are dispatched, Q holds that     *)
(* value of D and Qn its complement.                                       *)
C12_SetupViolation == [][SetupStep]_vars /\ []Latched

C12_Witness ==
  /\ Timing /\ Drained
  /\ \E i \in 1..Len(diag) : diag[i].kind = "setup"
  /\ LastEdge(1) # <<>>
  /\ LastEdge(1)[1].d = ONE
  /\ CurValue["Q"] = ONE /\ CurValue["Qn"] = ZERO

Scenario4 ==
  /\ hist.bench = 3
  /\ stim = <<StimLine(5, "CLK", "1"), StimLine(5, "D", "1")>>
  /\ Timing

(* C13.  The timing simulation of `Q .DFF 1 1 D CLK Q Qn` with the         *)
(* stimulus 5 CLK 1; 5 D 1 reports a hold-time violation at time 5 on Q.   *)
C13_HoldViolationReported ==
  (Scenario4 /\ Drained)
  => \E i \in 1..Len(diag) :
       diag[i] = [kind |-> "hold", time |-> 5, node |-> "Q"]

Functional == hist.mode = "functional"

(* C14.  No functional simulation, in FuncInit or in its main loop, ever   *)
(* reports a setup or hold violation.                                      *)
C14_FunctionalReportsNothing == Functional => diag = <<>>

\* the stimulus of the hold-violation scenario, run functionally to the end,
\* the flip-flop having seen the rising edge
C14_Witness ==
  /\ Functional /\ Drained
  /\ hist.bench = 3
  /\ stim = <<StimLine(5, "CLK", "1"), StimLine(5, "D", "1")>>
  /\ hist.edges # <<>>
  /\ dffs[1].Dchange_time = 5

\* the NodeUpdates in queue q that the seeding loop queued for node n
Seeds(q, n) ==
  {i \in 1..Len(q) : q[i].src = "seed" /\ q[i].CompNode = 1 /\ q[i].eventNode = n}

\* what C15 says of the queue a timing simulation starts its main loop with
SeedStep ==
  (pc = "parsed" /\ hist'.mode = "timing" /\ \A n \in nodeNames : CurValue[n] = ZERO)
  => \A k \in 1..Len(comps) :
       IF comps[k].kind \in {".NAND", ".NOR", ".XNOR"}
       THEN /\ Cardinality(Seeds(PQ', comps[k].output)) = 1
            /\ \A i \in Seeds(PQ', comps[k].output) :
                 PQ'[i].nextVal = ONE /\ PQ'[i].eventTime = comps[k].rise_Time
       ELSE Seeds(PQ', comps[k].output) = {}

\* the example: `Y .NAND 2 2 A B` with no stimulus
NandExample ==
  (hist.bench = 2 /\ stim = <<>> /\ Timing /\ Drained)
  => /\ dumpvars = [n \in {"A", "B", "Y"} |-> "0"]
     /\ vcd = <<[time |-> 2, node |-> "Y", bit |-> "1"]>>

(* C15.  A timing simulation that starts with all nodes at 0 seeds, for    *)
(* every NAND, NOR and XNOR gate, exactly one NodeUpdate(output, 1) at the *)
(* time of the gate's rise delay, and nothing for AND, OR and XOR gates;   *)
(* `Y .NAND 2 2 A B` without stimulus starts with A = B = Y = 0 and has    *)
(* the one transition Y = 1 at time 2.                                     *)
C15_TimingSeeds == [][SeedStep]_vars /\ []NandExample

Scenario3 ==
  /\ hist.bench = 3
  /\ stim = <<StimLine(0, "D", "1"), StimLine(5, "CLK", "1"),
              StimLine(10, "CLK", "0")>>
  /\ Timing

(* C16.  The timing simulation of `Q .DFF 1 1 D CLK Q Qn` with the         *)
(* stimulus 0 D 1; 5 CLK 1; 10 CLK 0 has Q = 1 and Qn = 0 once the events  *)
(* of time 5 are dispatched, and reports no setup violation.               *)
C16_FlipFlopCapture ==
  (Scenario3 /\ Started)
  => /\ (hist.now >= 5 /\ (PQ = <<>> \/ Top(PQ).eventTime > 5))
        => CurValue["Q"] = ONE /\ CurValue["Qn"] = ZERO
     /\ \A i \in 1..Len(diag) : diag[i].kind # "setup"

C16_Witness ==
  /\ Scenario3 /\ Drained
  /\ hist.edges = <<[k |-> 1, t |-> 5, d |-> ONE]>>
  /\ \E i \in 1..Len(vcd) : vcd[i] = [time |-> 5, node |-> "Q", bit |-> "1"]

Scenario6 ==
  /\ hist.bench = 4
  /\ stim = <<StimLine(0, "A", "1"), StimLine(0, "B", "1"),
              StimLine(0, "C", "0")>>
  /\ Timing

\* the transition records of the nodes of set S, in order
RECURSIVE Transitions(_, _)
Transitions(v, S) ==
  IF v = <<>> THEN <<>>
  ELSE IF v[1].node \in S
       THEN <<v[1]>> \o Transitions(Tail(v), S)
       ELSE Transitions(Tail(v), S)

(* C17.  The timing simulation of `X .AND 2 2 A B ; Y .OR 3 3 X C` with    *)
(* the stimulus 0 A 1; 0 B 1; 0 C 0 changes X to 1 at time 2 and Y to 1 at *)
(* time 5, and X and Y have no other transition or value change.           *)
C17_CascadeTiming ==
  (Scenario6 /\ Started)
  => /\ CurValue["X"] = (IF hist.now >= 2 /\ [time |-> 2, node |-> "X", bit |-> "1"]
                               \in {vcd[i] : i \in 1..Len(vcd)} THEN ONE ELSE ZERO)
     /\ CurValue["Y"] = (IF hist.now >= 5 /\ [time |-> 5, node |-> "Y", bit |-> "1"]
                               \in {vcd[i] : i \in 1..Len(vcd)} THEN ONE ELSE ZERO)
     /\ Drained
        => Transitions(vcd, {"X", "Y"})
             = <<[time |-> 2, node |-> "X", bit |-> "1"],
                 [time |-> 5, node |-> "Y", bit |-> "1"]>>

C17_Witness ==
  /\ Scenario6 /\ Drained
  /\ CurValue["X"] = ONE /\ CurValue["Y"] = ONE
  /\ hist.now = 5

-----------------------------------------------------------------------------
\* the generator was made for the netlist `Y .AND 1 1 A B`
AndGenerator ==
  /\ netlist = <<GateLine("Y", ".AND", 1, 1, <<"A", "B">>)>>
  /\ gen.pc # "none"

\* Generate has returned
Terminated == gen.pc = "done"

\* FaultVectors.txt has a vector with A = 1 and B = 1
EmitsBothOnes ==
  \E i \in 1..Len(gen.file) : gen.file[i]["A"] = ONE /\ gen.file[i]["B"] = ONE

(* C18.  For the netlist `Y .AND 1 1 A B`, every run of the fault          *)
(* generator that terminates with a target coverage of 50% or more has     *)
(* emitted a fault vector with A = 1 and B = 1, whatever patterns its      *)
(* trials drew.                                                            *)
C18_EmitsBothOnes ==
  (AndGenerator /\ Terminated /\ gen.x >= 50) => EmitsBothOnes

(* C18, amended.  For the netlist `Y .AND 1 1 A B`, every run of the fault *)
(* generator that terminates with a target coverage of 51% or more has     *)
(* emitted a fault vector with A = 1 and B = 1, whatever patterns its      *)
(* trials drew.                                                            *)
C18_EmitsBothOnesAbove ==
  (AndGenerator /\ Terminated /\ gen.x >= 51) => EmitsBothOnes

C18_Witness ==
  /\ AndGenerator /\ Terminated /\ gen.x >= 51
  /\ EmitsBothOnes
  /\ Len(gen.file) > 1

-----------------------------------------------------------------------------
\* the pattern bits, applied to the circuit c as built and to c with the
\* fault f, gives different outputs
Detects(c, f, ins, outs, bits) ==
  NodeValues(FunctionalRun(StuckAtCircuit(c, f[1], f[2]),
                           VectorLines(InOrder(ins, 1), 1, bits)).circuit, outs)
    # NodeValues(FunctionalRun(c, VectorLines(InOrder(ins, 1), 1, bits)).circuit,
                 outs)

\* the stuck-at faults of circuit c that some input pattern detects
DetectableOf(c) ==
  {f \in (DOMAIN c.cv) \X {ZERO, ONE} :
     \E bits \in [FindInputs(c.comps, DOMAIN c.cv) -> {0, 1}] :
       Detects(c, f, FindInputs(c.comps, DOMAIN c.cv),
               FindOutputs(c.comps, DOMAIN c.cv), bits)}

Detectable == DetectableOf(NewCircuit(netlist, ZERO, ZERO))

\* Generate runs or has run with a required coverage that exceeds the
\* fraction of detectable faults by more than 0.001
Unreachable ==
  /\ gen.pc \in {"trial", "done"}
  /\ MoreCoverage(gen.x, Cardinality(Detectable), gen.total_faults)

\* a round that ends when every detectable fault is detected has a largest
\* count of zero, writes no vector, and is followed by another round
ZeroRound ==
  (/\ gen.pc = "trial"
   /\ gen'.pc # "none"
   /\ Len(gen.responses) = gen.caseCnt
   /\ gen'.responses = <<>>
   /\ Unreachable
   /\ gen.detected = Cardinality(Detectable))
  => /\ gen'.last = 0
     /\ gen'.file = gen.file
     /\ gen'.vector_cnt = gen.vector_cnt
     /\ gen'.pc = "trial"

(* C19.  When the required coverage exceeds by more than 0.001 the         *)
(* fraction of the stuck-at faults that some input pattern detects,        *)
(* Generate never returns; once the detectable faults are detected, every  *)
(* round has a largest detected count of zero, emits no vector, and is     *)
(* followed by another round.                                              *)
C19_NeverTerminates ==
  [][ZeroRound]_vars /\ [](Terminated => ~Unreachable)

C19_Witness ==
  /\ Unreachable
  /\ gen.pc = "trial"
  /\ gen.last = 0
  /\ gen.detected = Cardinality(Detectable)
  /\ gen.detected > 0
  /\ Len(gen.file) = gen.detected

-----------------------------------------------------------------------------
\* what a functional simulation of the netlist and the stimulus writes when
\* its flip-flops' uninitialised members hold uq and uqn
OtherRun(uq, uqn) == FunctionalRun(NewCircuit(netlist, uq, uqn), stim)

(* C20.  Functional simulation is deterministic: when a functional         *)
(* simulation of a freshly parsed circuit has ended, every other           *)
(* functional simulation of the same netlist and stimulus on a freshly     *)
(* parsed circuit writes the same $dumpvars values and the same sequence   *)
(* of (time, node, value) transition records.                              *)
C20_FunctionalDeterministic ==
  (Functional /\ Drained /\ hist.lock = <<>>)
  => \A uq \in Indeterminate, uqn \in Indeterminate :
       /\ OtherRun(uq, uqn).dumpvars = dumpvars
       /\ OtherRun(uq, uqn).vcd = vcd

-----------------------------------------------------------------------------
\* the functional simulation of the stimulus on a circuit parsed from the
\* netlist and never locked
Baseline == FunctionalRun(NewCircuit(netlist, ZERO, ZERO), stim)

(* C21.  When a node of a circuit was locked, a functional simulation run, *)
(* the node unlocked and the same functional simulation run again on that  *)
(* circuit, the second run has written the $dumpvars values and the        *)
(* transition records of a never-locked circuit on the same stimulus.      *)
C21_StuckAtRoundTrip ==
  pc = "reran" => (dumpvars = Baseline.dumpvars /\ vcd = Baseline.vcd)

-----------------------------------------------------------------------------
\* the positions of a sequence of bits that hold 1
Ones(bits) == {i \in DOMAIN bits : bits[i] = 1}

\* the boolean function of a gate kind on the bits of its present inputs
GateFunction(kind, bits) ==
  IF kind = ".AND" THEN (IF Ones(bits) = DOMAIN bits THEN 1 ELSE 0)
  ELSE IF kind = ".NAND" THEN (IF Ones(bits) = DOMAIN bits THEN 0 ELSE 1)
  ELSE IF kind = ".OR" THEN (IF Ones(bits) # {} THEN 1 ELSE 0)
  ELSE IF kind = ".NOR" THEN (IF Ones(bits) # {} THEN 0 ELSE 1)
  ELSE IF kind = ".XOR" THEN Cardinality(Ones(bits)) % 2
  ELSE 1 - (Cardinality(Ones(bits)) % 2)

\* every input node of gate g holds 0 or 1
BinaryInputs(g, cv) ==
  \A i \in 1..Len(g.inputNames) : cv[g.inputNames[i]] \in {ZERO, ONE}

\* the values of the input nodes of gate g, as bits
InputBits(g, cv) ==
  [i \in 1..Len(g.inputNames) |-> IF cv[g.inputNames[i]] = ONE THEN 1 ELSE 0]

\* the step dispatches the GateEvaluate on top of the queue, for gate k
EvaluatesGate(k) ==
  /\ pc \in {"finit", "run"}
  /\ PQ # <<>>
  /\ Top(PQ).CompNode = 0
  /\ Top(PQ).eventComp = GateRef(k)
  /\ Len(hist'.dispatched) = Len(hist.dispatched) + 1

\* what evaluate() does to gate g (h the gate after it) at node values cv
Evaluated(g, h, cv) ==
  /\ h.prevoutputValue = g.outputValue
  /\ h.outputValue = GateFunction(g.kind, InputBits(g, cv))
  /\ h.delay = (IF g.outputValue = 0 /\ h.outputValue = 1 THEN g.rise_Time
                ELSE IF g.outputValue = 1 /\ h.outputValue = 0 THEN g.fall_Time
                ELSE 0)

EvaluateStep ==
  \A k \in 1..Len(comps) :
    (EvaluatesGate(k) /\ BinaryInputs(comps[k], CurValue))
    => /\ Evaluated(comps[k], comps'[k], CurValue)
       /\ CurValue' = CurValue

(* C22.  evaluate() on a gate whose input nodes hold 0 or 1 copies the     *)
(* committed output into the previous slot, commits the boolean function   *)
(* of the input-node values, sets delay to the rise time when the          *)
(* committed output goes 0 -> 1, to the fall time when it goes 1 -> 0 and  *)
(* to 0 when it does not change, and changes no node value.                *)
C22_Evaluate == [][EvaluateStep]_vars

C22_Witness ==
  /\ Len(hist.dispatched) > 0
  /\ \E k \in 1..Len(comps) :
       /\ hist.dispatched[Len(hist.dispatched)].CompNode = 0
       /\ hist.dispatched[Len(hist.dispatched)].eventComp = GateRef(k)
       /\ BinaryInputs(comps[k], CurValue)
       /\ comps[k].prevoutputValue = 1
       /\ comps[k].outputValue = 0
       /\ comps[k].fall_Time > 0
       /\ comps[k].delay = comps[k].fall_Time
       /\ comps[k].fall_Time # comps[k].rise_Time

-----------------------------------------------------------------------------
\* the step dispatches the NodeUpdate on top of the queue
UpdatesNode ==
  /\ pc \in {"finit", "run"}
  /\ PQ # <<>>
  /\ Top(PQ).CompNode = 1
  /\ Len(hist'.dispatched) = Len(hist.dispatched) + 1

\* the records of the calls of Delete that the step made for gate k: the
\* calls made because PreCalc returned 1
DeletesFor(k) ==
  {i \in (Len(hist.deletes) + 1)..Len(hist'.deletes) : hist'.deletes[i].k = k}

\* PreCalc of gate k, called in the step for the node values cv, returned 1
\* iff the gate's function of cv differs from the committed output, and
\* changed nothing: the previous slot and the delay are as before, and so is
\* the committed output unless Delete removed an event and reverted the gate
WouldChange(k, cv) ==
  /\ DeletesFor(k) # {}
      <=> GateFunction(comps[k].kind, InputBits(comps[k], cv)) # comps[k].outputValue
  /\ comps'[k].prevoutputValue = comps[k].prevoutputValue
  /\ comps'[k].delay = comps[k].delay
  /\ (\A i \in DeletesFor(k) : hist'.deletes[i].dropped = <<>>)
      => comps'[k].outputValue = comps[k].outputValue

WouldChangeStep ==
  UpdatesNode
  => /\ \A k \in 1..Len(comps) :
          (IsInput(comps[k], Top(PQ).eventNode) /\ BinaryInputs(comps[k], CurValue'))
          => WouldChange(k, CurValue')
     /\ \A n \in nodeNames \ {Top(PQ).eventNode} : CurValue'[n] = CurValue[n]

(* C23.  would_change(), called for a gate whose input nodes hold 0 or 1,  *)
(* returns true iff the gate's boolean function of the current input-node  *)
(* values differs from the gate's committed output, and it leaves the      *)
(* committed output, the previous slot, the delay and every node value     *)
(* unchanged.                                                              *)
C23_WouldChange == [][WouldChangeStep]_vars

C23_Witness ==
  /\ Len(hist.dispatched) > 1
  /\ hist.dispatched[Len(hist.dispatched)].CompNode = 1
  /\ \E k \in 1..Len(comps) :
       /\ IsInput(comps[k], hist.dispatched[Len(hist.dispatched)].eventNode)
       /\ BinaryInputs(comps[k], CurValue)
       /\ GateFunction(comps[k].kind, InputBits(comps[k], CurValue))
            = comps[k].outputValue
       /\ comps[k].outputValue = 1
       /\ \A i \in 1..Len(hist.deletes) :
            hist.deletes[i].n # Len(hist.dispatched)

-----------------------------------------------------------------------------
\* the events of a queue or of a list of events
Events(q) == {q[i] : i \in 1..Len(q)}

\* the pending NodeUpdate events of queue q whose target is node x
UpdatesOf(q, x) == {e \in Events(q) : e.CompNode = 1 /\ e.eventNode = x}

\* d is what Delete(x, y) makes of queue q and gate y: the NodeUpdate events
\* for x are gone, every other event is there once and as it was, and y is
\* reverted iff an event went
Purged(q, x, y, d) ==
  /\ Events(d[1]) = Events(q) \ UpdatesOf(q, x)
  /\ Len(d[1]) = Cardinality(Events(q) \ UpdatesOf(q, x))
  /\ Events(d[3]) = UpdatesOf(q, x)
  /\ d[2] = [y EXCEPT !.outputValue = IF UpdatesOf(q, x) # {}
                                      THEN y.prevoutputValue ELSE y.outputValue]

\* the first Delete of a step that dispatches a NodeUpdate dropped the
\* NodeUpdate events of the queue for the output of its gate
PurgeStep ==
  (UpdatesNode /\ Len(hist'.deletes) > Len(hist.deletes))
  => Events(hist'.deletes[Len(hist.deletes) + 1].dropped)
       = UpdatesOf(PQ, comps[hist'.deletes[Len(hist.deletes) + 1].k].output)

\* Delete on the queue as it is, for every node and every gate
PurgeHere ==
  \A x \in nodeNames, k \in 1..Len(comps) :
    Purged(PQ, x, comps[k], Delete(PQ, x, comps[k]))

(* C24.  purge(node) removes from the queue exactly the pending NodeUpdate *)
(* events whose target is the node: every GateEvaluate event and every     *)
(* NodeUpdate for another node stays pending with its time and value, and  *)
(* revert() is applied to the producing gate iff an event was removed.     *)
C24_PurgeExact == [][PurgeStep]_vars /\ []PurgeHere

C24_Witness ==
  /\ Started /\ Timing
  /\ \E i \in 1..Len(hist.deletes) :
       /\ hist.deletes[i].n = Len(hist.dispatched)
       /\ hist.deletes[i].dropped # <<>>
       /\ \E e \in Events(PQ) : e.CompNode = 1
       /\ \E e \in Events(PQ) : e.CompNode = 0

-----------------------------------------------------------------------------
\* the bits of the present inputs, then for every absent slot the bit v
Padded(bits, v) == bits \o [i \in 1..(MaxInputs - Len(bits)) |-> v]

\* the identity element of a gate kind's operation
Identity(kind) == IF kind \in {".AND", ".NAND"} THEN 1 ELSE 0

(* C25.  For each gate kind and every 0/1 assignment to its 1 to 8 present *)
(* inputs, the committed output of evaluate() is the conjunction (AND),    *)
(* the disjunction (OR), the odd parity (XOR) of the present inputs, or    *)
(* the complement of these (NAND, NOR, XNOR); it is the value the function *)
(* has on all 8 slots when every absent slot holds 1 (AND, NAND) or 0      *)
(* (the others).                                                           *)
C25_TruthTables ==
  pc = "evaluated"
  => /\ comps[1].outputValue
          = GateFunction(comps[1].kind, InputBits(comps[1], CurValue))
     /\ comps[1].outputValue
          = GateFunction(comps[1].kind,
                         Padded(InputBits(comps[1], CurValue),
                                Identity(comps[1].kind)))

C25_Witness ==
  /\ pc = "evaluated"
  /\ comps[1].kind = ".XNOR"
  /\ Len(comps[1].inputNames) = 3
  /\ Cardinality(Ones(InputBits(comps[1], CurValue))) = 3
  /\ comps[1].outputValue = 0
  /\ comps[1].prevoutputValue = 1

-----------------------------------------------------------------------------
\* the times of the stimulus lines that name a node
StimulusTimes == {stim[i].time : i \in {j \in 1..Len(stim) : stim[j].input \in nodeNames}}

\* a step of a functional simulation that dispatches an event queues events
\* with the dispatched event's timestamp only
SameTimeStep ==
  (/\ Functional
   /\ pc \in {"finit", "run"}
   /\ PQ # <<>>
   /\ Len(hist'.dispatched) = Len(hist.dispatched) + 1)
  => \A e \in Events(PQ') \ Events(PQ) : e.eventTime = Top(PQ).eventTime

\* in the main loop of a functional simulation every event, pending or
\* dispatched, and every transition record has the time of a stimulus line
StimulusTimesOnly ==
  (Functional /\ Started)
  => /\ \A e \in Events(PQ) : e.eventTime \in StimulusTimes
     /\ \A i \in 1..Len(vcd) : vcd[i].time \in StimulusTimes

(* C26.  In functional simulation every NodeUpdate scheduled by a gate     *)
(* evaluation carries the timestamp T of the event that triggered it, not  *)
(* T + delay: every event queued while an event of time T is dispatched    *)
(* has time T, so every value change that follows from a stimulus record   *)
(* of time T is dispatched with timestamp T, whatever the delays of the    *)
(* gates.                                                                  *)
C26_FunctionalSameTime == [][SameTimeStep]_vars /\ []StimulusTimesOnly

C26_Witness ==
  /\ Functional /\ Drained
  /\ \E i \in 1..Len(hist.dispatched) :
       /\ hist.dispatched[i].src = "gate"
       /\ hist.dispatched[i].eventTime = MaxTime
       /\ \E k \in 1..Len(comps) :
            /\ comps[k].output = hist.dispatched[i].eventNode
            /\ comps[k].rise_Time > 1
            /\ comps[k].fall_Time > 1

-----------------------------------------------------------------------------
\* every gate's output node holds the gate's function of its input nodes
Settled(cv) ==
  \A k \in 1..Len(comps) :
    BinaryInputs(comps[k], cv)
    => cv[comps[k].output]
         = Bit(GateFunction(comps[k].kind, InputBits(comps[k], cv)))

\* the step of a functional simulation from FuncInit to the main loop: the
\* queue is empty before the stimulus is pushed, and $dumpvars gets the
\* settled node values
InitialStateStep ==
  (Functional /\ pc = "finit" /\ pc' # "finit" /\ hist.lock = <<>>)
  => /\ PQ = <<>>
     /\ \A e \in Events(PQ') : e.src = "stim"
     /\ dumpvars' = [n \in nodeNames |-> IF CurValue[n] = ONE THEN "1" ELSE "0"]
     /\ NoSelfLoop => Settled(CurValue)

(* C27.  In functional simulation the initial-state computation drains the *)
(* event queue completely before any stimulus record is pushed, and the    *)
(* initial values reported in $dumpvars are the node values after that     *)
(* settlement (1 for the output of a NAND whose inputs are 0), not the     *)
(* all-zero values from before it; a circuit in which no gate reads its   *)
(* own output is settled when every gate's output node holds the gate's    *)
(* function of its input nodes.                                            *)
C27_InitialStateSettled == [][InitialStateStep]_vars

-----------------------------------------------------------------------------
\* in circuit c node n, and no other node, is locked, at value v
LockedAlone(c, n, v) ==
  /\ c.cv[n] = v
  /\ \A m \in DOMAIN c.sa : c.sa[m] = (IF m = n THEN 1 ELSE 0)

\* the faulty circuits of the generator in which n alone is locked at v
CircuitsFor(n, v) ==
  {f \in DOMAIN gen.faultyCircuits : LockedAlone(gen.faultyCircuits[f], n, v)}

\* the generator as its constructor leaves it
Constructed ==
  gen.pc = "built"
  => /\ \A n \in DOMAIN gen.GoodCircuit.sa : gen.GoodCircuit.sa[n] = 0
     /\ Cardinality(DOMAIN gen.faultyCircuits)
          = 2 * Cardinality(DOMAIN gen.GoodCircuit.cv)
     /\ \A n \in DOMAIN gen.GoodCircuit.cv, v \in {ZERO, ONE} :
          Cardinality(CircuitsFor(n, v)) = 1
     /\ \A f \in DOMAIN gen.faultyCircuits :
          /\ gen.faultyCircuits[f].comps = gen.GoodCircuit.comps
          /\ gen.faultyCircuits[f].dffs = gen.GoodCircuit.dffs
          /\ DOMAIN gen.faultyCircuits[f].cv = DOMAIN gen.GoodCircuit.cv

\* a trial leaves every circuit as a simulation of that circuit alone
\* leaves it, and the end of a round changes no circuit that stays
OwnState ==
  /\ (gen.pc = "trial" /\ gen'.pc = "trial"
        /\ Len(gen'.responses) = Len(gen.responses) + 1)
     => \E randombit \in [CircuitInputNames(gen) -> {0, 1}] :
          /\ gen'.GoodCircuit
               = FunctionalRun(gen.GoodCircuit,
                    VectorLines(InOrder(CircuitInputNames(gen), 1), 1,
                                randombit)).circuit
          /\ \A f \in DOMAIN gen.faultyCircuits :
               gen'.faultyCircuits[f]
                 = FunctionalRun(gen.faultyCircuits[f],
                      VectorLines(InOrder(CircuitInputNames(gen), 1), 1,
                                  randombit)).circuit
  /\ (gen.pc = "trial" /\ Len(gen.responses) = gen.caseCnt
        /\ gen'.pc \in {"trial", "done"} /\ gen'.responses = <<>>)
     => /\ gen'.GoodCircuit = gen.GoodCircuit
        /\ \A f \in DOMAIN gen'.faultyCircuits :
             gen'.faultyCircuits[f] = gen.faultyCircuits[f]

(* C28.  After the fault generator is constructed for a netlist with node  *)
(* set N it has one good circuit with no locked node and exactly 2*|N|     *)
(* faulty circuits: for every node n of N exactly one in which n alone is  *)
(* locked at 0 and exactly one in which n alone is locked at 1; every      *)
(* circuit has nodes, gates and a queue of its own, so a simulation of one *)
(* or the removal of one changes no other.                                 *)
C28_GeneratorCircuits == [][OwnState]_vars /\ []Constructed

C28_Witness ==
  /\ gen.pc = "built"
  /\ Cardinality(DOMAIN gen.GoodCircuit.cv) = 3
  /\ Cardinality(DOMAIN gen.faultyCircuits) = 6
  /\ Cardinality(CircuitsFor("Y", ONE)) = 1

-----------------------------------------------------------------------------
\* R, the faulty circuits not yet detected
Remaining == DOMAIN gen.faultyCircuits

\* the step is the end of a round: the part of the while body after the trials
EndsRound ==
  /\ gen.pc = "trial"
  /\ gen'.pc \in {"trial", "done"}
  /\ gen'.responses = <<>>
  /\ gen.responses # <<>>

\* the largest detected-fault count among the trials of the round
MaxDetected ==
  CHOOSE m \in {gen.responses[i].detectedFaults : i \in DOMAIN gen.responses} :
    \A i \in DOMAIN gen.responses : gen.responses[i].detectedFaults <= m

\* the first trial, in trial order, whose count is the largest
FirstMaximal ==
  CHOOSE i \in DOMAIN gen.responses :
    /\ gen.responses[i].detectedFaults = MaxDetected
    /\ \A j \in DOMAIN gen.responses :
         gen.responses[j].detectedFaults = MaxDetected => i <= j

\* what the end of a round does with the trials of the round
RoundStep ==
  EndsRound
  => /\ Len(gen.responses) = Cardinality(Remaining)
     /\ gen'.detected = gen.detected + MaxDetected
     /\ MaxDetected # 0
        => /\ gen'.file = Append(gen.file, gen.responses[FirstMaximal].test_inputs)
           /\ DOMAIN gen'.faultyCircuits
                = Remaining \ gen.responses[FirstMaximal].bustedCircuits
     /\ MaxDetected = 0
        => /\ gen'.file = gen.file
           /\ gen'.vector_cnt = gen.vector_cnt
           /\ gen'.faultyCircuits = gen.faultyCircuits
           /\ gen'.detected = gen.detected

\* no round tries more patterns than it has undetected circuits
TrialsBounded ==
  gen.pc = "trial" => Len(gen.responses) <= Cardinality(Remaining)

-----------------------------------------------------------------------------
\* Generate(x) has been entered
Generating == gen.pc \in {"trial", "done"}

\* total_coverage is (total_faults - |R|) / total_faults and at most 1, as
\* numerators over total_faults; every header written has its vector
CoverageIsDetected ==
  Generating
  => /\ gen.detected = gen.total_faults - Cardinality(Remaining)
     /\ gen.detected <= gen.total_faults
     /\ gen.vector_cnt = Len(gen.file)
     /\ gen.vector_cnt <= gen.detected

\* R never grows; a round that writes a vector removes from R the circuits
\* its vector detected, at least one and all of them in R, and adds their
\* number to the coverage
AcceptStep ==
  /\ (Generating /\ gen'.pc \in {"trial", "done"})
     => /\ DOMAIN gen'.faultyCircuits \subseteq Remaining
        /\ gen'.detected - gen.detected
             = Cardinality(Remaining \ DOMAIN gen'.faultyCircuits)
  /\ (EndsRound /\ gen'.file # gen.file)
     => /\ gen.responses[FirstMaximal].bustedCircuits # {}
        /\ gen.responses[FirstMaximal].bustedCircuits \subseteq Remaining
        /\ Remaining \ DOMAIN gen'.faultyCircuits
             = gen.responses[FirstMaximal].bustedCircuits
  /\ (EndsRound /\ gen'.file = gen.file)
     => DOMAIN gen'.faultyCircuits = Remaining

(* C30.  After any number of rounds of the fault generator the cumulative  *)
(* coverage is (total faults - |R|) / total faults: every accepted vector  *)
(* detected at least one circuit that was in R, exactly the circuits it    *)
(* detected leave R, no fault is counted twice, R never grows and the      *)
(* coverage never exceeds 1.                                               *)
C30_CoverageAccounting == [][AcceptStep]_vars /\ []CoverageIsDetected

\* the generator stopped with every fault of a three-node netlist detected
\* by three accepted vectors
C30_Witness ==
  /\ gen.pc = "done"
  /\ gen.total_faults = 6
  /\ gen.detected = 6
  /\ Remaining = {}
  /\ gen.vector_cnt = 3

-----------------------------------------------------------------------------
(* C31.  The fault generator starts a round only while the cumulative      *)
(* coverage is below C - 0.001 and returns only with the cumulative        *)
(* coverage at least C - 0.001; with target coverage 0 it runs no trial    *)
(* and writes no vector.  Coverage is detected / total_faults and C is     *)
(* x / 100, so coverage < C - 0.001 is                                     *)
(* 1000 * detected < (10 * x - 1) * total_faults.                          *)
C31_StopRule ==
  /\ [][(gen'.pc = "trial" /\ gen'.responses = <<>>)
         => 1000 * gen'.detected < (10 * gen'.x - 1) * gen'.total_faults]_vars
  /\ [](gen.pc = "done"
         => /\ 1000 * gen.detected >= (10 * gen.x - 1) * gen.total_faults
            /\ gen.x = 0 => (gen.file = <<>> /\ gen.last = -1
                              /\ gen.detected = 0 /\ gen.responses = <<>>))

\* the generator has returned for target 0 on a netlist with six faults
C31_Witness ==
  /\ gen.pc = "done"
  /\ gen.x = 0
  /\ gen.total_faults = 6
  /\ gen.file = <<>>

-----------------------------------------------------------------------------
(* C32.  For every input pattern a faulty circuit is counted as detected   *)
(* exactly when at least one output node's final value differs from the    *)
(* final value of the output node of that name in the good circuit, in     *)
(* whatever order the good and the faulty circuit enumerate their output   *)
(* nodes.                                                                  *)
C32_DetectedIffOutputDiffers ==
  (gen.pc = "trial" /\ gen.responses # <<>>)
  => LET outs == FindOutputs(gen.GoodCircuit.comps, DOMAIN gen.GoodCircuit.cv)
         orders == {o \in [1..Cardinality(outs) -> outs] :
                      \A i, j \in DOMAIN o : o[i] = o[j] => i = j}
         busted == gen.responses[Len(gen.responses)].bustedCircuits
     IN  \A f \in DOMAIN gen.faultyCircuits :
           /\ f \in busted
               <=> \E n \in outs :
                     gen.faultyCircuits[f].cv[n] # gen.GoodCircuit.cv[n]
           /\ \A og \in orders, of \in orders :
                f \in busted
                <=> Reorder(CircuitOutputs(gen.GoodCircuit, og),
                            CircuitOutputs(gen.faultyCircuits[f], of), 1)
                      # CircuitOutputs(gen.GoodCircuit, og)

\* a pattern was tried on the netlist with the output nodes X and Y; it
\* detected the circuit with A stuck at 1 and not the one with A stuck at 0
C32_Witness ==
  /\ gen.pc = "trial"
  /\ Len(gen.responses) = 1
  /\ FindOutputs(gen.GoodCircuit.comps, DOMAIN gen.GoodCircuit.cv) = {"X", "Y"}
  /\ <<"A", ONE>> \in gen.responses[1].bustedCircuits
  /\ <<"A", ZERO>> \notin gen.responses[1].bustedCircuits

-----------------------------------------------------------------------------
(* C33.  In every iteration of the timing and functional main loops the    *)
(* event that Pop() removes at the end of the iteration is the event that  *)
(* Top() returned and that the iteration dispatched, so no event is        *)
(* dispatched twice and none is removed undispatched, whatever the         *)
(* netlist.                                                                *)
C33_PopRemovesDispatched ==
  /\ Len(hist.popped) = Len(hist.dispatched)
  /\ \A i \in 1..Len(hist.dispatched) :
       hist.popped[i].id = hist.dispatched[i].id
  /\ \A i, j \in 1..Len(hist.dispatched) :
       hist.dispatched[i].id = hist.dispatched[j].id => i = j

-----------------------------------------------------------------------------
(* C34.  Whenever a dispatched GateEvaluate changes a gate's committed     *)
(* output, 0 -> 1 or 1 -> 0, a NodeUpdate that carries the new value is    *)
(* scheduled for the gate's output node, in timing and in functional mode  *)
(* and whatever the rise and fall delays, a delay of 0 included.           *)
C34_ChangeSchedulesUpdate ==
  [][\A k \in 1..Len(comps) :
       (EvaluatesGate(k) /\ comps'[k].outputValue # comps[k].outputValue)
       => \E e \in UpdatesOf(PQ', comps[k].output) \ Events(PQ) :
            e.nextVal = comps'[k].outVal]_vars

-----------------------------------------------------------------------------
(* C35.  At every point of a timing run whose stimulus file drives no      *)
(* gate's output node, the queue holds at most one pending NodeUpdate for  *)
(* the output node of any combinational gate.                              *)
C35_OneUpdateInFlight ==
  (Timing /\ Started
     /\ \A i \in 1..Len(stim) : \A k \in 1..Len(comps) :
          comps[k].output # stim[i].input)
  => \A k \in 1..Len(comps) :
       Cardinality({i \in 1..Len(PQ) :
                      PQ[i].CompNode = 1 /\ PQ[i].eventNode = comps[k].output}) <= 1

-----------------------------------------------------------------------------
\* the connections of the netlist: a feeds b when a is an input of a gate
\* whose output is b, or the D or CLK of a flip-flop whose Q or Qn is b
Feeds ==
  {ab \in nodeNames \X nodeNames :
     \/ \E k \in 1..Len(comps) :
          IsInput(comps[k], ab[1]) /\ comps[k].output = ab[2]
     \/ \E k \in 1..Len(dffs) :
          /\ ab[1] \in {dffs[k].D, dffs[k].CLK}
          /\ ab[2] \in {dffs[k].Q, dffs[k].Qn}}

\* the nodes of S and the nodes reached from them along connections
RECURSIVE ReachedFrom(_)
ReachedFrom(S) ==
  IF \A ab \in Feeds : ab[1] \in S => ab[2] \in S THEN S
  ELSE ReachedFrom(S \cup {ab[2] : ab \in {cd \in Feeds : cd[1] \in S}})

\* the gates and flip-flops form no feedback cycle
Acyclic ==
  \A ab \in Feeds : ab[1] \notin ReachedFrom({ab[2]})

(* C36.  On a netlist whose gates and flip-flops form no feedback cycle    *)
(* (no node is reached from itself along input -> output connections) the  *)
(* main loop of the timing simulation terminates for every stimulus file:  *)
(* after finitely many dispatches the queue is empty.                      *)
C36_TimingTerminates ==
  (Timing /\ pc = "run" /\ Acyclic) ~> (pc = "done" /\ PQ = <<>>)

\* the timing run of the two-gate cascade has ended with an empty queue
\* after six dispatches
C36_Witness ==
  /\ Timing
  /\ pc = "done"
  /\ PQ = <<>>
  /\ Acyclic
  /\ Len(comps) = 2
  /\ Len(hist.dispatched) >= 6

-----------------------------------------------------------------------------
(* C37.  A timing run reports a violation only relative to an event that   *)
(* occurred: a hold violation at time t only if the flip-flop latched on a *)
(* rising CLK edge at a time t_c <= t with t - t_c < hold, and a setup     *)
(* violation at time t only if a NodeUpdate of D was dispatched at a time  *)
(* t_d <= t with t - t_d < setup; none is reported only because t is       *)
(* smaller than the setup or hold time counted from the initial 0.         *)
C37_ViolationsHaveCause ==
  Timing
  => \A i \in 1..Len(diag) : \A k \in 1..Len(dffs) :
       dffs[k].Q = diag[i].node
       => /\ diag[i].kind = "hold"
             => \E j \in 1..Len(hist.edges) :
                  /\ hist.edges[j].k = k
                  /\ hist.edges[j].t <= diag[i].time
                  /\ diag[i].time - hist.edges[j].t < dffs[k].holdTime
          /\ diag[i].kind = "setup"
             => \E j \in 1..Len(hist.dispatched) :
                  /\ hist.dispatched[j].CompNode = 1
                  /\ hist.dispatched[j].eventNode = dffs[k].D
                  /\ hist.dispatched[j].eventTime <= diag[i].time
                  /\ diag[i].time - hist.dispatched[j].eventTime
                       < dffs[k].setupTime

-----------------------------------------------------------------------------
(* C38.  On a combinational netlist the set of faulty circuits that the    *)
(* fault generator reports as detected by an input pattern depends on the  *)
(* pattern and on R only, not on the patterns simulated before on the same *)
(* circuits: it is the set that circuits never simulated before report for *)
(* the pattern.                                                            *)
C38_DetectionHistoryFree ==
  (gen.pc = "trial" /\ gen.responses # <<>>)
  => LET ins == CircuitInputNames(gen)
         outs == FindOutputs(gen.GoodCircuit.comps, DOMAIN gen.GoodCircuit.cv)
         last == gen.responses[Len(gen.responses)]
         lines == VectorLines(InOrder(ins, 1), 1,
                    [n \in ins |-> IF last.test_inputs[n] = ONE THEN 1 ELSE 0])
         fresh == NewCircuit(netlist, ZERO, ZERO)
         good == FunctionalRun(fresh, lines).circuit
     IN  last.bustedCircuits
           = {f \in Remaining :
                NodeValues(FunctionalRun(StuckAtCircuit(fresh, f[1], f[2]),
                                         lines).circuit, outs)
                  # NodeValues(good, outs)}

-----------------------------------------------------------------------------
(* C39.  On an acyclic combinational netlist whose rise and fall delays    *)
(* are all at least 1, and for every stimulus file, the node values after  *)
(* the timing simulation has drained its queue are the node values after   *)
(* the functional simulation of the same netlist and stimulus file has     *)
(* drained its queue.                                                      *)
C39_FunctionalEqualsTiming ==
  (/\ Timing
   /\ Drained
   /\ hist.lock = <<>>
   /\ dffs = <<>>
   /\ Acyclic
   /\ \A k \in 1..Len(comps) : comps[k].rise_Time >= 1 /\ comps[k].fall_Time >= 1)
  => CurValue = FunctionalRun(NewCircuit(netlist, ZERO, ZERO), stim).circuit.cv

-----------------------------------------------------------------------------
(* C40.  When every stuck-at fault not yet detected is detectable by some  *)
(* input pattern (so every fault still needed for the target coverage C    *)
(* is), the fault generator, drawing its patterns fairly, eventually       *)
(* returns, with a cumulative coverage of at least C - 0.001.              *)
C40_FairGeneratorTerminates ==
  (gen.pc = "trial" /\ Remaining \subseteq Detectable)
  ~> (Terminated /\ ~MoreCoverage(gen.x, gen.detected, gen.total_faults))

====
